---- MODULE Spec2Model ----
(***************************************************************************)
(* A model of the SPARSETH sparse node (pslowak/sparseth).                 *)
(*                                                                         *)
(* The module holds one state machine per component, each with its own     *)
(* specification over the shared variable tuple:                           *)
(*   SpecVerifier  - the event-mode hash-chain log verifier                *)
(*   SpecFilter    - the sparse-mode transaction filter (Preparer)         *)
(*   SpecSparse    - the sparse-mode TxProcessor and its reverting state   *)
(*   SpecDispatch  - the dispatcher, the block listener and the monitors   *)
(*   SpecDispatchFair - SpecDispatch with a Broadcast call that keeps      *)
(*                   being scheduled                                       *)
(*   SpecNode, SpecTxProvider, SpecMemDb, SpecHeaderStore,                 *)
(*   SpecSubscriptions, SpecReverting, SpecTracing, SpecCallers,           *)
(*   SpecEventMonitor, SpecSparseCancel, SpecTracer, SpecCompleteness,     *)
(*   SpecUninit, SpecStorageRead - described where they are defined        *)
(* A specification leaves the variables of the other components at their   *)
(* initial values.                                                         *)
(***************************************************************************)
EXTENDS Integers, Sequences, FiniteSets, TLC

(***************************************************************************)
(* Bounds of the model.                                                    *)
(***************************************************************************)
\* Size of the modelled hash space: hashes are 0 .. HashMod-1.
HashMod == 3
\* Longest list of logs handed to one VerifyLogs call.
MaxLogs == 2
\* Most transactions in a block handed to FilterTxs.
MaxTxs == 2
\* Most headers handed to the sparse TxProcessor.
MaxBlocks == 2
\* Capacity of a subscriber channel; the dispatcher makes them with 10.
SubBufCap == 2
\* Most headers handed to Dispatcher.Broadcast.
MaxHeaders == 3
\* Capacity of the channel of the sync client; NewMockClient makes it with 128.
PubCap == 2
\* Highest number the latest block has when the sync client starts.
MaxLatest == 2
\* Most new heads the subscription of the sync client delivers.
MaxFollow == 1
\* Most pairs in a batch of the key-value store.
MaxBatch == 2
\* Highest block number of a stored header.
MaxHeight == 2
\* Most writes to the reverting state database between two commits.
MaxWrites == 3
\* Most transactions LoadState is called with.
MaxLoadTxs == 2
\* Most channels the dispatcher makes.
MaxChans == 4
\* The blocks of the chain the event monitor follows.
MaxEvBlocks == 2
\* The calls made on a tracer.
MaxTrace == 4
\* The byte ':' of the header keys.
Colon == 58

VARIABLES
    \* ---- event-mode log verifier (execution/ethclient/types.go) ----
    vHead,      \* Verifier.head
    vPrev,      \* Verifier.head at the start of the last VerifyLogs call
    vLogs,      \* the logs of the last VerifyLogs call
    vExpected,  \* the expected head of the last VerifyLogs call
    vResult,    \* "none" | "ok" | "err": what the call just made returned
    \* ---- sparse-mode transaction filter (execution/monitor/state/preparer.go) ----
    fTxs,       \* the block's transactions, in block order
    fCoinbase,  \* header.Coinbase
    fResult,    \* what FilterTxs returned, once done: [done, err, txs]
    \* ---- sparse-mode TxProcessor (unnamed/part_019, reverting_db.go, journal.go) ----
    sPc,        \* the position of ProcessBlock, "idle" between calls
    sBlock,     \* the number of ProcessBlock calls started
    sDb,        \* TxProcessor.world: [acc, storage, journal]
    sWorldNil,  \* TxProcessor.world is nil
    sPre,       \* the accounts and storage of sDb when the call started
    sTransient, \* the transient state of the call: [written, slots, acc, storage]
    sToVerify,  \* the monitored accounts VerifyCompleteness has yet to see
    sChecks,    \* the checks passed in this call, and the accounts the merged
                \* transient had as written: [uninit, complete, merged]
    sResult,    \* "none" | "ok" | "err": what the call returned
    \* ---- Dispatcher, Listener and Monitors (unnamed/part_009, part_015, part_016) ----
    dSubs,      \* the ids in Dispatcher.subs; the channel of id is chans[id]
    mu,         \* Dispatcher.mu is held
    chans,      \* the subscriber channel of each id: [buf, closed]
    cancelled,  \* the context of the node is cancelled
    bPc,        \* the listener: "select" | "lock" | "loop" | "stopped"
    bHead,      \* the header of the Broadcast call in progress
    bTodo,      \* the ids the loop of Broadcast has yet to visit
    bDropped,   \* the ids the header of this call was dropped for
    bSteps,     \* the steps the Broadcast call in progress has taken
    bLog,       \* the headers passed to Broadcast so far, in call order
    mPc,        \* per monitor: "new" | "select" | "processing" | "stopped" | "panicked"
    mHead,      \* the value a monitor took from its channel, 0 for nil
    mRes,       \* what the last processBlock call of a monitor returned
    mRecv,      \* the headers a monitor has received, in order
    mDone,      \* the number of processBlock calls of a monitor that returned
    mLog,       \* the level of the last line a monitor logged
    \* ---- the tasks of Node.Start (node/node.go, sync/client_mock.go, part_015) ----
    nCancelled, \* the context of the errgroup is cancelled
    cPc,        \* the sync client: "latest" | "genesis" | "syncUp" | "put" | "send" | "subscribe" | "follow" | "returned"
    cLatest,    \* the number of the latest block, fetched at the start
    cNum,       \* the loop variable of syncUp
    cHead,      \* the header handleNewBlockHead holds, by its number
    cFollow,    \* 0 during syncUp, then one more than the new heads taken
    cErr,       \* what RunContext of the sync client returned
    hStore,     \* the numbers of the headers in the header store
    pipe,       \* the channel from the sync client to the listener: [buf, closed]
    lPc,        \* the listener of the node: "select" | "broadcast" | "returned" | "panicked"
    nmPc,       \* the monitor of the node: "running" | "returned"
    \* ---- txProvider.getTxsAtBlock (execution/ethclient/tx_provider.go) ----
    tpBlock,    \* the transactions of the block the header belongs to
    tpRpc,      \* the answer of GetTransactionsAtBlock: [err, txs]
    tpResult,   \* what getTxsAtBlock returned, once done: [done, err, list]
    \* ---- mem.Database (storage/mem/memdb.go) ----
    kvDb,       \* the store: [open, m], m the map from the keys present to values
    kvRes,      \* the last operation called: [op, err, out, closed]
    \* ---- HeaderStore (ethstore) over kvDb ----
    hsMu,       \* s.mu: [readers, writer], writer "none" | "waiting" | "held"
    wPc,        \* the caller of Put: "idle" | "lock" | "locked"
    wHeader,    \* the header of the Put in progress
    wRes,       \* what the last Put returned: "none" | "ok" | "err"
    rPc,        \* the caller of GetByNumber/GetByHash: "idle" | "num" | "rlock" | "hash"
    rNum,       \* the number GetByNumber was called with
    rHash,      \* the hash GetByHash was called with
    rNested,    \* GetByHash runs inside GetByNumber
    rRes,       \* what the last Get returned: "none" | "ok" | an error
    rHeader,    \* the header the last Get returned
    \* ---- Dispatcher.subs with the identity of the channels ----
    dsMap,      \* d.subs: id -> channel, NoChan for an id not in the map
    dsNext,     \* the channel the next make() returns
    dsClosed,   \* the channels that were closed
    dsCalls,    \* id -> calls of Subscribe(id) since the id was removed, up to 2
    dsFirst,    \* id -> the channel the first of these calls returned
    dsLast,     \* id -> the channel the last of these calls returned
    \* ---- RevertingStateDB on its own (reverting_db.go, journal.go) ----
    rvDb,       \* the state database with its journal
    rvBase,     \* the accounts and slots at the last commit
    rvLast,     \* the last call: "none" | "write" | "commit" | "revert"
    \* ---- TracingStateDB and Preparer.LoadState ----
    tsPhase,    \* "new" | "loaded" | "exec" | "failed"
    tsWorld,    \* the transient state: [tracer, exists]
    tsIn,       \* what LoadState was called with, until the execution starts
    tsOp,       \* the last call of the execution: [op, addr, slot]
    \* ---- concurrent callers of one Dispatcher (unnamed/part_009) ----
    cdMu,       \* d.mu: "none" or the caller that holds it
    cdPc,       \* per caller: [op, id, at], at "idle" | "lock" | "locked"
    cdTodo,     \* the channels the loop of the Broadcast that holds d.mu has yet to visit
    cdCloses,   \* channel -> the number of close(ch) calls made on it
    cdSentClosed, \* the channels a send was attempted on after their close
    \* ---- the event monitor of one contract (execution/monitor/event/processor.go) ----
    emChain,    \* the last block of the chain: [num, logs, head], head the contract's hash-chain head after the block
    emNext,     \* the number of the block whose header the dispatcher handles next
    emVHead,    \* LogProcessor.verifier.head
    emMissed,   \* the blocks with tracked logs that were not processed successfully
    emLast,     \* the last ProcessBlock call: [block, served, result]
    \* ---- the context of TxProcessor.ProcessBlock ----
    sCancelAt,  \* "none", or the position of ProcessBlock at which ctx was cancelled
    \* ---- the tracer on its own (execution/monitor/state/tracer.go) ----
    trTracer,   \* the tracer: its four maps
    trLog,      \* the calls made on it, in order: [kind, addr, slot]
    \* ---- Verifier.VerifyCompleteness on its own (unnamed/part_021) ----
    vcDb,       \* the persistent world: [acc, storage]
    vcExpected, \* the account GetAccountAtBlock hands over, after the proof check
    vcErrs,     \* the provider calls that fail: [account, counter]
    vcResult,   \* "none" | "ok" | "err": what the call returned
    \* ---- Verifier.verifyStorageRead on its own ----
    srTuple,    \* the StorageRead: [Address, Slots]
    srChain,    \* the chain at the previous header: [exists, nonDefault]
    srErrs,     \* the provider calls that fail: [header, accounts, slots]
    srResult,   \* "none" | "ok" | "err"
    \* ---- Verifier.VerifyUninitializedReads inside ProcessBlock ----
    urPc,       \* ProcessBlock: "uninit" | "merge" | "verify" | "returned"
    urDb,       \* TxProcessor.world: [acc, storage, journal]
    urPre,      \* the accounts and storage of urDb when the call started
    urCall      \* the VerifyUninitializedReads call: [made, reads, slotReads, chain, errs, result]

verifierVars == <<vHead, vPrev, vLogs, vExpected, vResult>>

filterVars == <<fTxs, fCoinbase, fResult>>

sparseVars ==
    <<sPc, sBlock, sDb, sWorldNil, sPre, sTransient, sToVerify, sChecks, sResult>>

dispatchVars ==
    <<dSubs, mu, chans, cancelled, bPc, bHead, bTodo, bDropped, bSteps, bLog,
      mPc, mHead, mRes, mRecv, mDone, mLog>>

nodeVars ==
    <<nCancelled, cPc, cLatest, cNum, cHead, cFollow, cErr, hStore, pipe, lPc, nmPc>>

txProviderVars == <<tpBlock, tpRpc, tpResult>>

memDbVars == <<kvDb, kvRes>>

headerStoreVars == <<hsMu, wPc, wHeader, wRes, rPc, rNum, rHash, rNested, rRes, rHeader>>

subscriptionVars == <<dsMap, dsNext, dsClosed, dsCalls, dsFirst, dsLast>>

revertingVars == <<rvDb, rvBase, rvLast>>

tracingVars == <<tsPhase, tsWorld, tsIn, tsOp>>

callerVars == <<cdMu, cdPc, cdTodo, cdCloses, cdSentClosed>>

eventMonitorVars == <<emChain, emNext, emVHead, emMissed, emLast>>

cancelVars == <<sCancelAt>>

tracerVars == <<trTracer, trLog>>

completenessVars == <<vcDb, vcExpected, vcErrs, vcResult>>

uninitVars == <<urPc, urDb, urPre, urCall>>

storageReadVars == <<srTuple, srChain, srErrs, srResult>>

vars == <<verifierVars, filterVars, sparseVars, dispatchVars, nodeVars, txProviderVars, memDbVars, headerStoreVars, subscriptionVars, revertingVars, tracingVars, callerVars, eventMonitorVars, cancelVars, tracerVars, completenessVars, uninitVars, storageReadVars>>

Hashes == 0 .. (HashMod - 1)

RECURSIVE SeqsUpTo(_, _)
\* All sequences over S of length at most n.
SeqsUpTo(S, n) ==
    IF n = 0 THEN {<<>>}
    ELSE LET shorter == SeqsUpTo(S, n - 1)
         IN  shorter \cup {Append(s, x) : s \in {t \in shorter : Len(t) = n - 1}, x \in S}

(***************************************************************************)
(* Event-mode hash-chain verifier.                                         *)
(***************************************************************************)

\* The contract ABI: for each event signature the declared inputs, each
\* input being indexed (TRUE) or not (FALSE).  "Moved" declares an indexed
\* input first, "Noted" a non-indexed input first.
EventABI == [Moved |-> <<TRUE, FALSE>>, Noted |-> <<FALSE, TRUE>>]

KnownEvents == DOMAIN EventABI

\* The topic values that follow the signature topic, and the log data as a
\* list of 32-byte words.
TopicSeqs == {<<>>, <<1>>, <<2>>, <<1, 2>>}
DataSeqs == {<<>>, <<1>>}

\* The logs a provider may hand over: with or without a signature topic, the
\* signature known or not, with too few, the right number of or too many
\* topics, and with data of the right length or too short.
LogUniverse ==
    {[topics |-> <<id>> \o tv, data |-> d] :
        id \in KnownEvents \cup {"Unknown"}, tv \in TopicSeqs, d \in DataSeqs}
    \cup {[topics |-> <<>>, data |-> d] : d \in DataSeqs}

LogLists == SeqsUpTo(LogUniverse, MaxLogs)

RECURSIVE Keccak256Hash(_, _)
\* crypto.Keccak256Hash over the packed words, from accumulator acc.
Keccak256Hash(acc, packed) ==
    IF packed = <<>> THEN acc
    ELSE Keccak256Hash((acc * 7 + Head(packed) + 1) % HashMod, Tail(packed))

\* The inputs of an event that are not indexed, in declared order.
NonIndexed(inputs) == SelectSeq(inputs, LAMBDA ix : ~ix)

\* abi.Arguments.UnpackValues: the decoded values, one per non-indexed input;
\* it fails when the data holds fewer words than there are such inputs.
UnpackValues(inputs, data) ==
    IF Len(data) < Len(NonIndexed(inputs))
    THEN [err |-> TRUE, vals |-> <<>>]
    ELSE [err |-> FALSE, vals |-> SubSeq(data, 1, Len(NonIndexed(inputs)))]

RECURSIVE interleave(_, _, _, _, _, _)
\* The loop of computeNewHead over event.Inputs: position k, the counters
\* indexed (next topic, 0-based as in the source) and nonIndexed.
interleave(inputs, log, data, k, indexed, nonIndexed) ==
    IF k > Len(inputs)
    THEN [err |-> FALSE, vals |-> <<>>, indexed |-> indexed]
    ELSE IF inputs[k]
         THEN IF Len(log.topics) <= indexed
              THEN [err |-> TRUE, vals |-> <<>>, indexed |-> indexed]
              ELSE LET rest == interleave(inputs, log, data, k + 1, indexed + 1, nonIndexed)
                   IN  [rest EXCEPT !.vals = <<log.topics[indexed + 1]>> \o @]
         ELSE LET rest == interleave(inputs, log, data, k + 1, indexed, nonIndexed + 1)
              IN  [rest EXCEPT !.vals = <<data[nonIndexed + 1]>> \o @]

\* A mutant of computeNewHead: the check after the loop that every topic was
\* consumed is missing.
computeNewHeadNoTopicCount(prev, log) ==
    IF Len(log.topics) < 1 THEN [err |-> TRUE, head |-> 0]
    ELSE IF log.topics[1] \notin KnownEvents THEN [err |-> TRUE, head |-> 0]
    ELSE LET inputs == EventABI[log.topics[1]]
             un == UnpackValues(inputs, log.data)
         IN  IF un.err THEN [err |-> TRUE, head |-> 0]
             ELSE LET il == interleave(inputs, log, un.vals, 1, 1, 0)
                  IN  IF il.err THEN [err |-> TRUE, head |-> 0]
                      ELSE [err |-> FALSE, head |-> Keccak256Hash(0, <<prev>> \o il.vals)]

\* Verifier.computeNewHead: the head after one log, or an error.
computeNewHead(prev, log) ==
    IF Len(log.topics) < 1 THEN [err |-> TRUE, head |-> 0]
    ELSE IF log.topics[1] \notin KnownEvents THEN [err |-> TRUE, head |-> 0]
    ELSE LET inputs == EventABI[log.topics[1]]
             un == UnpackValues(inputs, log.data)
         IN  IF un.err THEN [err |-> TRUE, head |-> 0]
             ELSE IF Len(NonIndexed(inputs)) # Len(un.vals) THEN [err |-> TRUE, head |-> 0]
             ELSE LET il == interleave(inputs, log, un.vals, 1, 1, 0)
                  IN  IF il.err THEN [err |-> TRUE, head |-> 0]
                      ELSE IF il.indexed # Len(log.topics) THEN [err |-> TRUE, head |-> 0]
                      ELSE [err |-> FALSE, head |-> Keccak256Hash(0, <<prev>> \o il.vals)]

RECURSIVE foldLogs(_, _, _)
\* The loop of VerifyLogs: curr after the logs from position i on, stopping
\* at the first log whose head cannot be computed.
foldLogs(curr, logs, i) ==
    IF i > Len(logs) THEN [err |-> FALSE, head |-> curr]
    ELSE LET r == computeNewHead(curr, logs[i])
         IN  IF r.err THEN [err |-> TRUE, head |-> curr]
             ELSE foldLogs(r.head, logs, i + 1)

\* A mutant of VerifyLogs: the head is stored while the logs are folded, so a
\* failing call leaves the head of the last log that could be folded.
VerifyLogsEager(head, logs, expected) ==
    LET f == foldLogs(head, logs, 1)
    IN  IF f.err THEN [result |-> "err", head |-> f.head]
        ELSE IF f.head # expected THEN [result |-> "err", head |-> f.head]
        ELSE [result |-> "ok", head |-> f.head]

\* A mutant of VerifyLogs: a successful call does not store the new head.
VerifyLogsNoAdvance(head, logs, expected) ==
    LET f == foldLogs(head, logs, 1)
    IN  IF f.err THEN [result |-> "err", head |-> head]
        ELSE IF f.head # expected THEN [result |-> "err", head |-> head]
        ELSE [result |-> "ok", head |-> head]

\* Verifier.VerifyLogs: what the call returns and the head it leaves.
VerifyLogs(head, logs, expected) ==
    LET f == foldLogs(head, logs, 1)
    IN  IF f.err THEN [result |-> "err", head |-> head]
        ELSE IF f.head # expected THEN [result |-> "err", head |-> head]
        ELSE [result |-> "ok", head |-> f.head]

\* NewLogVerifier with the initial head of the node (the zero hash).
InitVerifier ==
    /\ vHead = 0
    /\ vPrev = 0
    /\ vLogs = <<>>
    /\ vExpected = 0
    /\ vResult = "none"

\* One call of VerifyLogs with logs and an expected head from the provider.
CallVerifyLogs ==
    /\ vResult = "none"
    /\ \E logs \in LogLists, expected \in Hashes :
        LET r == VerifyLogs(vHead, logs, expected)
        IN  /\ vPrev' = vHead
            /\ vLogs' = logs
            /\ vExpected' = expected
            /\ vResult' = r.result
            /\ vHead' = r.head

\* The caller has looked at the result; only the head is kept.
VerifyLogsReturned ==
    /\ vResult # "none"
    /\ vResult' = "none"
    /\ vPrev' = vHead
    /\ vLogs' = <<>>
    /\ vExpected' = 0
    /\ UNCHANGED vHead

(***************************************************************************)
(* Sparse-mode transaction filter.                                         *)
(***************************************************************************)

\* Account addresses; NoAddr is the nil recipient of a contract creation.
Addrs == {"A", "B", "C"}
NoAddr == "nil"

\* AccountsConfig.Accounts: the monitored accounts, fixed when the
\* configuration is loaded.
MonitoredAccs == {"A"}

\* header.Coinbase: an account that transactions of the block name, or one
\* that none of them names.
Coinbases == {"C", "Z"}

\* A transaction with its context: the recovered sender, the recipient and
\* the accounts of its trace (the provider's hint).
TxUniverse ==
    [Sender : Addrs, To : Addrs \cup {NoAddr},
     Trace : {S \in SUBSET Addrs : Cardinality(S) <= 1}]

Blocks == SeqsUpTo(TxUniverse, MaxTxs)

\* isRelevant: contract creation, tracked sender, tracked recipient or a
\* tracked account in the trace.
isRelevant(tx, trackedAccs) ==
    IF tx.To = NoAddr THEN TRUE
    ELSE IF tx.Sender \in trackedAccs THEN TRUE
    ELSE IF tx.To \in trackedAccs THEN TRUE
    ELSE \E acc \in tx.Trace : acc \in trackedAccs

\* A tracking that adds every account of the trace, the coinbase included.
trackContextWithCoinbase(tx, trackedAccs, coinbase) ==
    trackedAccs \cup {tx.Sender}
                \cup (IF tx.To # NoAddr THEN {tx.To} ELSE {})
                \cup tx.Trace

\* The tracked set after a transaction was admitted (preparer.go:94-102).
trackContext(tx, trackedAccs, coinbase) ==
    trackedAccs \cup {tx.Sender}
                \cup (IF tx.To # NoAddr THEN {tx.To} ELSE {})
                \cup {acc \in tx.Trace : acc # coinbase}

RECURSIVE scanReverse(_, _, _, _, _)
\* The loop of FilterTxs from index i down to the first transaction;
\* relevantTxs holds the indexes appended so far.
scanReverse(txs, coinbase, i, trackedAccs, relevantTxs) ==
    IF i < 1 THEN relevantTxs
    ELSE IF isRelevant(txs[i], trackedAccs)
         THEN scanReverse(txs, coinbase, i - 1,
                          trackContext(txs[i], trackedAccs, coinbase),
                          Append(relevantTxs, i))
         ELSE scanReverse(txs, coinbase, i - 1, trackedAccs, relevantTxs)

RECURSIVE scanForward(_, _, _, _, _)
\* The same loop run from the first transaction to the last.
scanForward(txs, coinbase, i, trackedAccs, relevantTxs) ==
    IF i > Len(txs) THEN relevantTxs
    ELSE IF isRelevant(txs[i], trackedAccs)
         THEN scanForward(txs, coinbase, i + 1,
                          trackContext(txs[i], trackedAccs, coinbase),
                          Append(relevantTxs, i))
         ELSE scanForward(txs, coinbase, i + 1, trackedAccs, relevantTxs)

RECURSIVE trackedAt(_, _, _)
\* trackedAccs in the loop of FilterTxs once the transactions after index i
\* have been examined: the monitored accounts at the start, i = Len(txs).
trackedAt(txs, coinbase, i) ==
    IF i >= Len(txs) THEN MonitoredAccs
    ELSE LET t == trackedAt(txs, coinbase, i + 1)
         IN  IF isRelevant(txs[i + 1], t)
             THEN trackContext(txs[i + 1], t, coinbase)
             ELSE t

\* slices.Reverse
Reverse(s) == [k \in 1 .. Len(s) |-> s[Len(s) + 1 - k]]

\* A mutant of FilterTxs: one forward scan over the block.
FilterTxsForward(txs, coinbase) ==
    scanForward(txs, coinbase, 1, MonitoredAccs, <<>>)

\* Preparer.FilterTxs: the indexes of the admitted transactions, in block
\* order.
FilterTxs(txs, coinbase) ==
    Reverse(scanReverse(txs, coinbase, Len(txs), MonitoredAccs, <<>>))

\* The filter at rest, as the other components see it.
InitFilterIdle ==
    /\ fTxs = <<>>
    /\ fCoinbase = "Z"
    /\ fResult = [done |-> FALSE, err |-> FALSE, txs |-> <<>>]

\* A block and its header as they arrive.
InitFilter ==
    /\ fTxs \in Blocks
    /\ fCoinbase \in Coinbases
    /\ fResult = [done |-> FALSE, err |-> FALSE, txs |-> <<>>]

\* FilterTxs returns the admitted transactions.
CallFilterTxs ==
    /\ ~fResult.done
    /\ fResult' = [done |-> TRUE, err |-> FALSE, txs |-> FilterTxs(fTxs, fCoinbase)]
    /\ UNCHANGED <<fTxs, fCoinbase>>

\* getTxsWithContext fails (sender recovery or the trace request), and so
\* does FilterTxs.
CallFilterTxsFails ==
    /\ ~fResult.done
    /\ fTxs # <<>>
    /\ fResult' = [done |-> TRUE, err |-> TRUE, txs |-> <<>>]
    /\ UNCHANGED <<fTxs, fCoinbase>>

(***************************************************************************)
(* Sparse-mode TxProcessor over the reverting state database.              *)
(***************************************************************************)

\* The accounts of the sparse world: "A" is monitored, "B" is not.
SAddrs == {"A", "B"}
\* The storage slots of an account; "count" is the count slot of "A".
Slots == {"count"}
Values == {0, 1}
Codes == {"", "code"}

\* An account nobody has created reads as this one.
NoAccount == [exists |-> FALSE, nonce |-> 0, balance |-> 0, code |-> ""]

\* NewRevertingStateDB(types.EmptyRootHash, stateDB): no account, an empty
\* journal.
EmptyDb ==
    [acc |-> [a \in SAddrs |-> NoAccount],
     storage |-> [a \in SAddrs |-> [k \in Slots |-> 0]],
     journal |-> <<>>]

\* RevertingStateDB.SetNonce: journal the previous nonce, then set it.  The
\* inner state database creates the state object if there is none.
SetNonce(db, addr, nonce) ==
    [db EXCEPT !.journal = Append(@, [kind |-> "nonce", addr |-> addr, slot |-> "", prev |-> db.acc[addr].nonce]),
               !.acc[addr].nonce = nonce,
               !.acc[addr].exists = TRUE]

\* RevertingStateDB.SetBalance
SetBalance(db, addr, amount) ==
    [db EXCEPT !.journal = Append(@, [kind |-> "balance", addr |-> addr, slot |-> "", prev |-> db.acc[addr].balance]),
               !.acc[addr].balance = amount,
               !.acc[addr].exists = TRUE]

\* RevertingStateDB.SetCode
SetCode(db, addr, code) ==
    [db EXCEPT !.journal = Append(@, [kind |-> "code", addr |-> addr, slot |-> "", prev |-> db.acc[addr].code]),
               !.acc[addr].code = code,
               !.acc[addr].exists = TRUE]

\* RevertingStateDB.SetState
SetState(db, addr, key, value) ==
    [db EXCEPT !.journal = Append(@, [kind |-> "storage", addr |-> addr, slot |-> key, prev |-> db.storage[addr][key]]),
               !.storage[addr][key] = value,
               !.acc[addr].exists = TRUE]

\* journalEntry.revert: the setter of the inner state database with the
\* previous value.
revertEntry(db, e) ==
    IF e.kind = "nonce" THEN [db EXCEPT !.acc[e.addr].nonce = e.prev, !.acc[e.addr].exists = TRUE]
    ELSE IF e.kind = "balance" THEN [db EXCEPT !.acc[e.addr].balance = e.prev, !.acc[e.addr].exists = TRUE]
    ELSE IF e.kind = "code" THEN [db EXCEPT !.acc[e.addr].code = e.prev, !.acc[e.addr].exists = TRUE]
    ELSE [db EXCEPT !.storage[e.addr][e.slot] = e.prev, !.acc[e.addr].exists = TRUE]

RECURSIVE journalRevertForward(_, _)
\* A Revert that replays the entries from the first to the last: the
\* first i entries are reverted, then entry i + 1 and those after it.
journalRevertForward(db, i) ==
    IF i < 1 THEN db
    ELSE revertEntry(journalRevertForward(db, i - 1), db.journal[i])

RECURSIVE journalRevert(_, _)
\* journal.Revert: the entries from index i down to the first; the entries
\* stay in the journal.
journalRevert(db, i) ==
    IF i < 1 THEN db
    ELSE journalRevert(revertEntry(db, db.journal[i]), i - 1)

\* RevertingStateDB.Revert
Revert(db) == journalRevert(db, Len(db.journal))

\* A Reset that leaves the entries in the journal.
journalResetKeeps(db) == db

\* journal.Reset, the first half of RevertingStateDB.Commit.
journalReset(db) == [db EXCEPT !.journal = <<>>]

RECURSIVE mergeAccountsAll(_, _, _)
\* A first loop without the test p.accounts.Contains(acc).
mergeAccountsAll(db, from, todo) ==
    IF todo = {} THEN db
    ELSE LET acc == CHOOSE a \in todo : TRUE
         IN  mergeAccountsAll(SetCode(SetBalance(SetNonce(db, acc, from.acc[acc].nonce),
                                                 acc, from.acc[acc].balance),
                                      acc, from.acc[acc].code),
                              from, todo \ {acc})

RECURSIVE mergeAccounts(_, _, _)
\* The first loop of TxProcessor.merge, over the written accounts in todo.
mergeAccounts(db, from, todo) ==
    IF todo = {} THEN db
    ELSE LET acc == CHOOSE a \in todo : TRUE
             next == IF acc \in MonitoredAccs
                     THEN SetCode(SetBalance(SetNonce(db, acc, from.acc[acc].nonce),
                                             acc, from.acc[acc].balance),
                                  acc, from.acc[acc].code)
                     ELSE db
         IN  mergeAccounts(next, from, todo \ {acc})

RECURSIVE mergeSlots(_, _, _, _)
\* The inner loop of the second loop of merge: the written slots of acc.
mergeSlots(db, from, acc, todo) ==
    IF todo = {} THEN db
    ELSE LET slot == CHOOSE k \in todo : TRUE
         IN  mergeSlots(SetState(db, acc, slot, from.storage[acc][slot]), from, acc, todo \ {slot})

RECURSIVE mergeStorage(_, _, _)
\* The second loop of merge, over the monitored accounts in todo.
mergeStorage(db, from, todo) ==
    IF todo = {} THEN db
    ELSE LET acc == CHOOSE a \in todo : TRUE
         IN  mergeStorage(mergeSlots(db, from, acc, from.slots[acc]), from, todo \ {acc})

\* TxProcessor.merge
merge(db, from) ==
    mergeStorage(mergeAccounts(db, from, from.written), from, MonitoredAccs)

\* The transient states an execution can leave: which accounts and slots
\* the trace has as written, and their values.  An account or slot that was
\* not written holds the default; of the account that is not monitored only
\* one written form is kept.
NoTransient ==
    [written |-> {}, slots |-> [a \in SAddrs |-> {}],
     acc |-> [a \in SAddrs |-> NoAccount],
     storage |-> [a \in SAddrs |-> [k \in Slots |-> 0]]]

WrittenForms(a) ==
    IF a \in MonitoredAccs
    THEN [exists : {TRUE}, nonce : Values, balance : Values, code : Codes]
    ELSE {[exists |-> TRUE, nonce |-> 1, balance |-> 1, code |-> "code"]}

Transients ==
    {[written |-> w, slots |-> sl, acc |-> ac, storage |-> st] :
        w \in SUBSET SAddrs,
        sl \in [SAddrs -> SUBSET Slots],
        ac \in [SAddrs -> [exists : BOOLEAN, nonce : Values, balance : Values, code : Codes]],
        st \in [SAddrs -> [Slots -> Values]]}

ValidTransient(t) ==
    /\ \A a \in SAddrs :
        /\ a \in t.written => t.acc[a] \in WrittenForms(a)
        /\ a \notin t.written => t.acc[a] = NoAccount
        /\ \A k \in Slots :
            /\ k \notin t.slots[a] => t.storage[a][k] = 0
            /\ (k \in t.slots[a] /\ a \notin MonitoredAccs) => t.storage[a][k] = 1

\* What the chain holds for an account at a header, as the provider hands
\* it over after the proof check: absent, or its fields.
ChainAccounts ==
    [exists : BOOLEAN, nonce : Values, balance : Values, code : Codes,
     storage : [Slots -> Values]]

\* An account check that leaves the balance out.
verifyExternallyOwnedAccountNoBalance(db, addr, expected) ==
    /\ db.acc[addr].exists
    /\ db.acc[addr].nonce = expected.nonce
    /\ db.acc[addr].code = expected.code
    /\ db.storage[addr] = expected.storage

\* Verifier.verifyExternallyOwnedAccount: existence, nonce, balance, code
\* hash and storage root of the world against the account of the chain.
verifyExternallyOwnedAccount(db, addr, expected) ==
    /\ db.acc[addr].exists
    /\ db.acc[addr].nonce = expected.nonce
    /\ db.acc[addr].balance = expected.balance
    /\ db.acc[addr].code = expected.code
    /\ db.storage[addr] = expected.storage

\* Verifier.VerifyCompleteness without its provider errors: an account the
\* chain does not hold passes; otherwise the account check and the value
\* of the count slot.
VerifyCompleteness(db, addr, expected) ==
    IF ~expected.exists THEN TRUE
    ELSE /\ verifyExternallyOwnedAccount(db, addr, expected)
         /\ db.storage[addr]["count"] = expected.storage["count"]

\* NewTxProcessor
InitSparse ==
    /\ sPc = "idle"
    /\ sBlock = 0
    /\ sDb = EmptyDb
    /\ sWorldNil = FALSE
    /\ sPre = [acc |-> EmptyDb.acc, storage |-> EmptyDb.storage]
    /\ sTransient = NoTransient
    /\ sToVerify = {}
    /\ sChecks = [uninit |-> FALSE, complete |-> {}, merged |-> {}]
    /\ sResult = "none"

\* ProcessBlock returns err to the monitor from position sPc.
ReturnErr ==
    /\ sPc' = "returned"
    /\ sResult' = "err"
    /\ sTransient' = NoTransient

\* The monitor hands the next header to ProcessBlock.
PB_Start ==
    /\ sPc = "idle"
    /\ sBlock < MaxBlocks
    /\ sBlock' = sBlock + 1
    /\ sPc' = "getTxs"
    /\ sPre' = [acc |-> sDb.acc, storage |-> sDb.storage]
    /\ sChecks' = [uninit |-> FALSE, complete |-> {}, merged |-> {}]
    /\ sResult' = "none"
    /\ UNCHANGED <<sDb, sWorldNil, sTransient, sToVerify>>

\* provider.GetTxsAtBlock (part_019:607-610)
PB_GetTxs ==
    /\ sPc = "getTxs"
    /\ \/ sPc' = "filter" /\ UNCHANGED <<sResult, sTransient>>
       \/ ReturnErr
    /\ UNCHANGED <<sBlock, sDb, sWorldNil, sPre, sToVerify, sChecks>>

\* preparer.FilterTxs (part_019:613-622): an error, no relevant
\* transaction (ProcessBlock returns nil), or some.
PB_FilterTxs ==
    /\ sPc = "filter"
    /\ \/ sPc' = "load" /\ UNCHANGED <<sResult, sTransient>>
       \/ sPc' = "returned" /\ sResult' = "ok" /\ UNCHANGED sTransient
       \/ ReturnErr
    /\ UNCHANGED <<sBlock, sDb, sWorldNil, sPre, sToVerify, sChecks>>

\* preparer.LoadState (part_019:625-628)
PB_LoadState ==
    /\ sPc = "load"
    /\ \/ sPc' = "execute" /\ UNCHANGED <<sResult, sTransient>>
       \/ ReturnErr
    /\ UNCHANGED <<sBlock, sDb, sWorldNil, sPre, sToVerify, sChecks>>

\* executor.ExecuteTxs, transientWorld.Commit and New (part_019:631-644)
PB_ExecuteTxs ==
    /\ sPc = "execute"
    /\ \/ /\ sPc' = "uninit"
          /\ \E t \in Transients : ValidTransient(t) /\ sTransient' = t
          /\ UNCHANGED sResult
       \/ ReturnErr
    /\ UNCHANGED <<sBlock, sDb, sWorldNil, sPre, sToVerify, sChecks>>

\* verifier.VerifyUninitializedReads (part_019:647-650)
PB_VerifyUninitializedReads ==
    /\ sPc = "uninit"
    /\ \/ /\ sPc' = "merge"
          /\ sChecks' = [sChecks EXCEPT !.uninit = TRUE]
          /\ UNCHANGED <<sResult, sTransient>>
       \/ ReturnErr /\ UNCHANGED sChecks
    /\ UNCHANGED <<sBlock, sDb, sWorldNil, sPre, sToVerify>>

\* p.merge and p.world.IntermediateRoot (part_019:653-655).  With a nil
\* world the first setter dereferences nil.
PB_Merge ==
    /\ sPc = "merge"
    /\ IF sWorldNil
       THEN /\ sPc' = "panicked"
            /\ UNCHANGED <<sDb, sToVerify, sTransient, sChecks>>
       ELSE /\ sPc' = "verify"
            /\ sDb' = merge(sDb, sTransient)
            /\ sToVerify' = MonitoredAccs
            /\ sChecks' = [sChecks EXCEPT !.merged =
                               sTransient.written
                                 \cup {a \in SAddrs : sTransient.slots[a] # {}}]
            /\ sTransient' = NoTransient
    /\ UNCHANGED <<sBlock, sWorldNil, sPre, sResult>>

\* One turn of the loop over the monitored accounts (part_019:658-664):
\* VerifyCompleteness passes, or fails on a mismatch or a provider error
\* and the world is reverted.
PB_VerifyCompleteness ==
    /\ sPc = "verify"
    /\ sToVerify # {}
    /\ \E acc \in sToVerify, expected \in ChainAccounts, providerOk \in BOOLEAN :
        IF providerOk /\ VerifyCompleteness(sDb, acc, expected)
        THEN /\ sToVerify' = sToVerify \ {acc}
             /\ sChecks' = [sChecks EXCEPT !.complete = @ \cup {acc}]
             /\ UNCHANGED <<sPc, sDb, sResult, sTransient>>
        ELSE /\ sDb' = Revert(sDb)
             /\ ReturnErr
             /\ UNCHANGED <<sToVerify, sChecks>>
    /\ UNCHANGED <<sBlock, sWorldNil, sPre>>

\* p.world.Commit (part_019:667-671): the journal is reset, then the inner
\* commit succeeds or fails.
PB_Commit ==
    /\ sPc = "verify"
    /\ sToVerify = {}
    /\ sDb' = journalReset(sDb)
    /\ \/ sPc' = "rebind" /\ UNCHANGED <<sResult, sTransient>>
       \/ ReturnErr
    /\ UNCHANGED <<sBlock, sWorldNil, sPre, sToVerify, sChecks>>

\* p.world, err = p.world.WithRoot(root) (part_019:673-679): on an error
\* WithRoot returns nil, which is assigned to p.world.
PB_WithRoot ==
    /\ sPc = "rebind"
    /\ \/ /\ sPc' = "returned"
          /\ sResult' = "ok"
          /\ UNCHANGED <<sWorldNil, sTransient>>
       \/ /\ sWorldNil' = TRUE
          /\ ReturnErr
    /\ UNCHANGED <<sBlock, sDb, sPre, sToVerify, sChecks>>

\* The monitor has logged the outcome and waits for the next header.
PB_Returned ==
    /\ sPc = "returned"
    /\ sPc' = "idle"
    /\ sResult' = "none"
    /\ sPre' = [acc |-> sDb.acc, storage |-> sDb.storage]
    /\ sChecks' = [uninit |-> FALSE, complete |-> {}, merged |-> {}]
    /\ sToVerify' = {}
    /\ UNCHANGED <<sBlock, sDb, sWorldNil, sTransient>>

(***************************************************************************)
(* Dispatcher, Listener and Monitors.                                      *)
(***************************************************************************)

\* The subscriber ids.  The node subscribes each id once, for the monitor
\* of that id, so an id stands for its channel as well.
Ids == {"m1", "m2"}
\* A nil *types.Header.
NilHeader == 0

\* make(chan *types.Header, 10)
makeChan == [buf |-> <<>>, closed |-> FALSE]
\* The channel has no room: a send would block.
chanFull(ch) == Len(ch.buf) >= SubBufCap
\* A send that puts the header at the front of the buffer.
chanSendFront(ch, head) == [ch EXCEPT !.buf = <<head>> \o @]
\* ch <- head, when there is room.
chanSend(ch, head) == [ch EXCEPT !.buf = Append(@, head)]
\* <-ch on a channel that holds a value: the channel after it.
chanRecv(ch) == [ch EXCEPT !.buf = Tail(@)]
\* close(ch)
chanClose(ch) == [ch EXCEPT !.closed = TRUE]

\* NewDispatcher; the node has started neither a monitor nor a Broadcast.
InitDispatch ==
    /\ dSubs = {}
    /\ mu = FALSE
    /\ chans = [id \in Ids |-> makeChan]
    /\ cancelled = FALSE
    /\ bPc = "select"
    /\ bHead = NilHeader
    /\ bTodo = {}
    /\ bDropped = {}
    /\ bSteps = 0
    /\ bLog = <<>>
    /\ mPc = [m \in Ids |-> "new"]
    /\ mHead = [m \in Ids |-> NilHeader]
    /\ mRes = [m \in Ids |-> "none"]
    /\ mRecv = [m \in Ids |-> <<>>]
    /\ mDone = [m \in Ids |-> 0]
    /\ mLog = [m \in Ids |-> "none"]

listenerVars == <<bPc, bHead, bTodo, bDropped, bSteps, bLog>>
monitorVars == <<mPc, mHead, mRes, mRecv, mDone, mLog>>

\* Dispatcher.Subscribe under d.mu, for an id that has no channel yet: a
\* new channel is put into the map.
Subscribe(id) ==
    /\ ~mu
    /\ dSubs' = dSubs \cup {id}
    /\ chans' = [chans EXCEPT ![id] = makeChan]
    /\ UNCHANGED mu

\* Dispatcher.Unsubscribe
Unsubscribe(id) ==
    /\ ~mu
    /\ IF id \in dSubs
       THEN /\ dSubs' = dSubs \ {id}
            /\ chans' = [chans EXCEPT ![id] = chanClose(@)]
       ELSE UNCHANGED <<dSubs, chans>>
    /\ UNCHANGED <<mu, cancelled, listenerVars, monitorVars>>

\* Dispatcher.Close
Close ==
    /\ ~mu
    /\ chans' = [id \in Ids |-> IF id \in dSubs THEN chanClose(chans[id]) ELSE chans[id]]
    /\ dSubs' = {}
    /\ UNCHANGED <<mu, cancelled, listenerVars, monitorVars>>

\* The context handed to Node.Start is cancelled.
Cancel ==
    /\ ~cancelled
    /\ cancelled' = TRUE
    /\ UNCHANGED <<dSubs, mu, chans, listenerVars, monitorVars>>

\* Listener.RunContext takes the next header from its channel and calls
\* Broadcast; headers carry increasing numbers.
B_Call ==
    /\ bPc = "select"
    /\ Len(bLog) < MaxHeaders
    /\ bPc' = "lock"
    /\ bHead' = Len(bLog) + 1
    /\ bLog' = Append(bLog, Len(bLog) + 1)
    /\ UNCHANGED <<dSubs, mu, chans, cancelled, bTodo, bDropped, bSteps, monitorVars>>

\* Broadcast: d.mu.Lock()
B_Lock ==
    /\ bPc = "lock"
    /\ ~mu
    /\ mu' = TRUE
    /\ bPc' = "loop"
    /\ bTodo' = dSubs
    /\ bSteps' = bSteps + 1
    /\ UNCHANGED <<dSubs, chans, cancelled, bHead, bDropped, bLog, monitorVars>>

\* A turn of the loop whose send has no default branch: it waits for room.
B_SendBlocking(id) ==
    /\ bPc = "loop"
    /\ id \in bTodo
    /\ ~chanFull(chans[id])
    /\ chans' = [chans EXCEPT ![id] = chanSend(@, bHead)]
    /\ bTodo' = bTodo \ {id}
    /\ bSteps' = bSteps + 1
    /\ UNCHANGED <<dSubs, mu, cancelled, bPc, bHead, bDropped, bLog, monitorVars>>

\* A turn of the loop that gives up on the first full channel: the header is
\* dropped for every subscriber not yet visited.
B_SendUntilFull(id) ==
    /\ bPc = "loop"
    /\ id \in bTodo
    /\ IF chanFull(chans[id])
       THEN /\ bDropped' = bDropped \cup bTodo
            /\ bTodo' = {}
            /\ UNCHANGED chans
       ELSE /\ chans' = [chans EXCEPT ![id] = chanSend(@, bHead)]
            /\ bTodo' = bTodo \ {id}
            /\ UNCHANGED bDropped
    /\ bSteps' = bSteps + 1
    /\ UNCHANGED <<dSubs, mu, cancelled, bPc, bHead, bLog, monitorVars>>

\* One turn of the loop of Broadcast, for id: the select sends the header
\* when the channel has room and takes the default branch when not.
B_Send(id) ==
    /\ bPc = "loop"
    /\ id \in bTodo
    /\ IF chanFull(chans[id])
       THEN /\ bDropped' = bDropped \cup {id}
            /\ UNCHANGED chans
       ELSE /\ chans' = [chans EXCEPT ![id] = chanSend(@, bHead)]
            /\ UNCHANGED bDropped
    /\ bTodo' = bTodo \ {id}
    /\ bSteps' = bSteps + 1
    /\ UNCHANGED <<dSubs, mu, cancelled, bPc, bHead, bLog, monitorVars>>

\* Broadcast: the loop is over, the deferred d.mu.Unlock() runs, and the
\* listener is back in its select.
B_Return ==
    /\ bPc = "loop"
    /\ bTodo = {}
    /\ mu' = FALSE
    /\ bPc' = "select"
    /\ bHead' = NilHeader
    /\ bDropped' = {}
    /\ bSteps' = 0
    /\ UNCHANGED <<dSubs, chans, cancelled, bTodo, bLog, monitorVars>>

\* Listener.RunContext: case <-ctx.Done()
L_Stop ==
    /\ bPc = "select"
    /\ cancelled
    /\ bPc' = "stopped"
    /\ UNCHANGED <<dSubs, mu, chans, cancelled, bHead, bTodo, bDropped, bSteps, bLog,
                   monitorVars>>

\* Node.Start: Subscribe for the monitor, NewMonitor with the channel, and
\* RunContext logs its start.
M_New(m) ==
    /\ mPc[m] = "new"
    /\ Subscribe(m)
    /\ mPc' = [mPc EXCEPT ![m] = "select"]
    /\ mLog' = [mLog EXCEPT ![m] = "info"]
    /\ UNCHANGED <<cancelled, listenerVars, mHead, mRes, mRecv, mDone>>

\* A receive that does not wait for processBlock to return.
M_ReceiveEager(m) ==
    /\ mPc[m] \in {"select", "processing"}
    /\ chans[m].buf # <<>>
    /\ mHead' = [mHead EXCEPT ![m] = Head(chans[m].buf)]
    /\ mRecv' = [mRecv EXCEPT ![m] = Append(@, Head(chans[m].buf))]
    /\ chans' = [chans EXCEPT ![m] = chanRecv(@)]
    /\ mPc' = [mPc EXCEPT ![m] = "processing"]
    /\ UNCHANGED <<dSubs, mu, cancelled, listenerVars, mRes, mDone, mLog>>

\* Monitor.RunContext: case head := <-m.sub.  A closed and drained channel
\* hands over nil.
M_Receive(m) ==
    /\ mPc[m] = "select"
    /\ IF chans[m].buf # <<>>
       THEN /\ mHead' = [mHead EXCEPT ![m] = Head(chans[m].buf)]
            /\ mRecv' = [mRecv EXCEPT ![m] = Append(@, Head(chans[m].buf))]
            /\ chans' = [chans EXCEPT ![m] = chanRecv(@)]
       ELSE /\ chans[m].closed
            /\ mHead' = [mHead EXCEPT ![m] = NilHeader]
            /\ UNCHANGED <<mRecv, chans>>
    /\ mPc' = [mPc EXCEPT ![m] = "processing"]
    /\ UNCHANGED <<dSubs, mu, cancelled, listenerVars, mRes, mDone, mLog>>

\* A loop that returns when processBlock returns an error.
M_ProcessBlockFatal(m) ==
    /\ mPc[m] = "processing"
    /\ mHead[m] # NilHeader
    /\ \E res \in {"ok", "err"} :
        /\ mRes' = [mRes EXCEPT ![m] = res]
        /\ mLog' = [mLog EXCEPT ![m] = IF res = "ok" THEN "info" ELSE "warn"]
        /\ mPc' = [mPc EXCEPT ![m] = IF res = "ok" THEN "select" ELSE "stopped"]
    /\ mDone' = [mDone EXCEPT ![m] = @ + 1]
    /\ mHead' = [mHead EXCEPT ![m] = NilHeader]
    /\ UNCHANGED <<dSubs, mu, chans, cancelled, listenerVars, mRecv>>

\* Monitor.RunContext after a receive: processBlock dereferences a nil
\* header; otherwise the processor accepts the block, logged at info level,
\* or returns an error, logged as a warning, and the loop goes back to its
\* select.
M_ProcessBlock(m) ==
    /\ mPc[m] = "processing"
    /\ IF mHead[m] = NilHeader
       THEN /\ mPc' = [mPc EXCEPT ![m] = "panicked"]
            /\ UNCHANGED <<mRes, mDone, mLog, mHead>>
       ELSE /\ \E res \in {"ok", "err"} :
                /\ mRes' = [mRes EXCEPT ![m] = res]
                /\ mLog' = [mLog EXCEPT ![m] = IF res = "ok" THEN "info" ELSE "warn"]
            /\ mDone' = [mDone EXCEPT ![m] = @ + 1]
            /\ mPc' = [mPc EXCEPT ![m] = "select"]
            /\ mHead' = [mHead EXCEPT ![m] = NilHeader]
    /\ UNCHANGED <<dSubs, mu, chans, cancelled, listenerVars, mRecv>>

\* Monitor.RunContext: case <-ctx.Done()
M_Stop(m) ==
    /\ mPc[m] = "select"
    /\ cancelled
    /\ mPc' = [mPc EXCEPT ![m] = "stopped"]
    /\ mLog' = [mLog EXCEPT ![m] = "info"]
    /\ UNCHANGED <<dSubs, mu, chans, cancelled, listenerVars, mHead, mRes, mRecv, mDone>>

(***************************************************************************)
(* Node.Start: the sync client, its channel to the listener, the listener  *)
(* and a monitor as the tasks of one errgroup.                             *)
(***************************************************************************)

\* make(chan *types.Header, 128) of NewMockClient
newPipe == [buf |-> <<>>, closed |-> FALSE]

\* Node.Start has made the tasks; none has run.
InitNode ==
    /\ nCancelled = FALSE
    /\ cPc = "latest"
    /\ cLatest = 0
    /\ cNum = 0
    /\ cHead = NilHeader
    /\ cFollow = 0
    /\ cErr = "none"
    /\ hStore = {}
    /\ pipe = newPipe
    /\ lPc = "select"
    /\ nmPc = "running"

syncVars == <<cPc, cLatest, cNum, cHead, cFollow, cErr, hStore>>

\* MockClient.RunContext returns err: the deferred close(c.pub) runs, and
\* the errgroup cancels its context when err is not nil.
SC_Return(err) ==
    /\ cPc' = "returned"
    /\ cErr' = err
    /\ pipe' = [pipe EXCEPT !.closed = TRUE]
    /\ nCancelled' = (nCancelled \/ err = "err")

\* RunContext: HeaderByNumber(latest).  A call with a cancelled context
\* fails.
SC_FetchLatest ==
    /\ cPc = "latest"
    /\ \/ /\ ~nCancelled
          /\ \E latest \in 0..MaxLatest : cLatest' = latest
          /\ cPc' = "genesis"
          /\ UNCHANGED <<cErr, pipe, nCancelled>>
       \/ SC_Return("err") /\ UNCHANGED cLatest
    /\ UNCHANGED <<cNum, cHead, cFollow, hStore, lPc, nmPc>>

\* syncUp: the genesis header is fetched and put into the header store.
SC_Genesis ==
    /\ cPc = "genesis"
    /\ \/ /\ ~nCancelled
          /\ hStore' = hStore \cup {0}
          /\ cNum' = 1
          /\ cPc' = "syncUp"
          /\ UNCHANGED <<cErr, pipe, nCancelled>>
       \/ SC_Return("err") /\ UNCHANGED <<hStore, cNum>>
    /\ UNCHANGED <<cLatest, cHead, cFollow, lPc, nmPc>>

\* syncUp: one turn of the loop up to its call of handleNewBlockHead, or
\* the end of the loop.
SC_SyncUp ==
    /\ cPc = "syncUp"
    /\ IF cNum > cLatest
       THEN /\ cPc' = "subscribe"
            /\ UNCHANGED <<cHead, cErr, pipe, nCancelled>>
       ELSE \/ /\ ~nCancelled
               /\ cHead' = cNum
               /\ cPc' = "put"
               /\ UNCHANGED <<cErr, pipe, nCancelled>>
            \/ SC_Return("err") /\ UNCHANGED cHead
    /\ UNCHANGED <<cLatest, cNum, cFollow, hStore, lPc, nmPc>>

\* handleNewBlockHead: c.db.Put(head); an error is logged and nothing else.
SC_Put ==
    /\ cPc = "put"
    /\ \/ hStore' = hStore \cup {cHead}
       \/ UNCHANGED hStore
    /\ cPc' = "send"
    /\ UNCHANGED <<nCancelled, cLatest, cNum, cHead, cFollow, cErr, pipe, lPc, nmPc>>

\* handleNewBlockHead: c.pub <- head, which waits for room, and the return
\* to the loop that called.
SC_Send ==
    /\ cPc = "send"
    /\ Len(pipe.buf) < PubCap
    /\ pipe' = [pipe EXCEPT !.buf = Append(@, cHead)]
    /\ cHead' = NilHeader
    /\ IF cFollow = 0
       THEN cNum' = cNum + 1 /\ cPc' = "syncUp"
       ELSE UNCHANGED cNum /\ cPc' = "follow"
    /\ UNCHANGED <<nCancelled, cLatest, cFollow, cErr, hStore, lPc, nmPc>>

\* syncNew: SubscribeNewHead
SC_Subscribe ==
    /\ cPc = "subscribe"
    /\ \/ /\ ~nCancelled
          /\ cPc' = "follow"
          /\ cFollow' = 1
          /\ UNCHANGED <<cErr, pipe, nCancelled>>
       \/ SC_Return("err") /\ UNCHANGED cFollow
    /\ UNCHANGED <<cLatest, cNum, cHead, hStore, lPc, nmPc>>

\* syncNew: the select takes a new head, a subscription error or the
\* cancellation.
SC_Follow ==
    /\ cPc = "follow"
    /\ \/ /\ cFollow <= MaxFollow
          /\ cHead' = cLatest + cFollow
          /\ cFollow' = cFollow + 1
          /\ cPc' = "put"
          /\ UNCHANGED <<cErr, pipe, nCancelled>>
       \/ SC_Return("err") /\ UNCHANGED <<cHead, cFollow>>
       \/ nCancelled /\ SC_Return("nil") /\ UNCHANGED <<cHead, cFollow>>
    /\ UNCHANGED <<cLatest, cNum, hStore, lPc, nmPc>>

\* Listener.RunContext: case head := <-l.sub and the call of Broadcast.  A
\* closed and drained channel hands over nil, and head.Hash() dereferences
\* it.
NL_Receive ==
    /\ lPc = "select"
    /\ IF pipe.buf # <<>>
       THEN pipe' = [pipe EXCEPT !.buf = Tail(@)] /\ lPc' = "broadcast"
       ELSE pipe.closed /\ lPc' = "panicked" /\ UNCHANGED pipe
    /\ UNCHANGED <<nCancelled, syncVars, nmPc>>

\* Dispatcher.Broadcast returns to the listener.
NL_Broadcast ==
    /\ lPc = "broadcast"
    /\ lPc' = "select"
    /\ UNCHANGED <<nCancelled, syncVars, pipe, nmPc>>

\* Listener.RunContext: case <-ctx.Done()
NL_Stop ==
    /\ lPc = "select"
    /\ nCancelled
    /\ lPc' = "returned"
    /\ UNCHANGED <<nCancelled, syncVars, pipe, nmPc>>

\* Monitor.RunContext: case <-ctx.Done()
NM_Stop ==
    /\ nmPc = "running"
    /\ nCancelled
    /\ nmPc' = "returned"
    /\ UNCHANGED <<nCancelled, syncVars, pipe, lPc>>

\* The signal context of main is cancelled.
N_Cancel ==
    /\ ~nCancelled
    /\ nCancelled' = TRUE
    /\ UNCHANGED <<syncVars, pipe, lPc, nmPc>>

(***************************************************************************)
(* The transaction provider of the RPC client.                             *)
(***************************************************************************)

\* The transactions a block or an RPC answer can hold.
TxIds == {1, 2, 3}
TxLists == SeqsUpTo(TxIds, MaxTxs)

RECURSIVE DeriveSha(_)
\* types.DeriveSha: the root of the trie that holds the list under its
\* indexes; lists that differ in a transaction, in the order or in the
\* length have different roots.
DeriveSha(txs) ==
    IF txs = <<>> THEN 0
    ELSE DeriveSha(SubSeq(txs, 1, Len(txs) - 1)) * (Cardinality(TxIds) + 1) + txs[Len(txs)]

\* A getTxsAtBlock that hands the answer on without the check of its root.
getTxsAtBlockUnchecked(txRoot, rpc) ==
    IF rpc.err
    THEN [err |-> TRUE, list |-> <<>>]
    ELSE [err |-> FALSE,
          list |-> [i \in 1..Len(rpc.txs) |-> [Tx |-> rpc.txs[i], Index |-> i - 1]]]

\* txProvider.getTxsAtBlock for a header with root txRoot and the answer
\* rpc of GetTransactionsAtBlock.
getTxsAtBlock(txRoot, rpc) ==
    IF rpc.err
    THEN [err |-> TRUE, list |-> <<>>]
    ELSE IF DeriveSha(rpc.txs) # txRoot
    THEN [err |-> TRUE, list |-> <<>>]
    ELSE [err |-> FALSE,
          list |-> [i \in 1..Len(rpc.txs) |-> [Tx |-> rpc.txs[i], Index |-> i - 1]]]

NoRpc == [err |-> TRUE, txs |-> <<>>]
NoTxResult == [done |-> FALSE, err |-> FALSE, list |-> <<>>]

\* No call is in progress.
InitTxProvider ==
    /\ tpBlock = <<>>
    /\ tpRpc = NoRpc
    /\ tpResult = NoTxResult

\* getTxsAtBlock is called with the header of a block that holds the
\* transactions block; the RPC provider answers with an error or with any
\* list.
CallGetTxsAtBlock ==
    /\ ~tpResult.done
    /\ \E block \in TxLists, rpc \in [err : {FALSE}, txs : TxLists] \cup {NoRpc} :
        /\ tpBlock' = block
        /\ tpRpc' = rpc
        /\ LET res == getTxsAtBlock(DeriveSha(block), rpc)
           IN  tpResult' = [done |-> TRUE, err |-> res.err, list |-> res.list]

\* The caller has taken the result.
GetTxsAtBlockReturned ==
    /\ tpResult.done
    /\ tpResult' = NoTxResult
    /\ UNCHANGED <<tpBlock, tpRpc>>

(***************************************************************************)
(* The in-memory key-value store (storage/mem).                            *)
(***************************************************************************)

\* Keys are byte strings; these are the keys of the generic operations.
KvKeys == {<<1>>, <<1, 1>>, <<1, 2>>, <<2>>}
KvVals == {"a", "b"}
\* Prefixes and bounds of ranges and iterators; <<>> is the empty string.
KvBounds == KvKeys \cup {<<>>, <<3>>}

RECURSIVE KeyLess(_, _)
\* a < b for Go strings: byte by byte, a proper prefix being smaller.
KeyLess(a, b) ==
    IF b = <<>> THEN FALSE
    ELSE IF a = <<>> THEN TRUE
    ELSE IF Head(a) # Head(b) THEN Head(a) < Head(b)
    ELSE KeyLess(Tail(a), Tail(b))

\* strings.HasPrefix(k, pr)
HasPrefix(k, pr) == Len(pr) <= Len(k) /\ SubSeq(k, 1, Len(pr)) = pr

\* mem.New: an open store with an empty map.
NewDatabase == [open |-> TRUE, m |-> [k \in {} |-> ""]]
\* The store after Close: the map is nil.
ClosedDatabase == [open |-> FALSE, m |-> [k \in {} |-> ""]]

mapPut(m, key, val) == [k \in DOMAIN m \cup {key} |-> IF k = key THEN val ELSE m[k]]
mapDelete(m, keys) == [k \in DOMAIN m \ keys |-> m[k]]

\* Every operation gives the store it leaves, its error and its output.
dbClose(db) == [db |-> ClosedDatabase, err |-> "nil", out |-> <<>>]

dbHas(db, key) ==
    IF ~db.open THEN [db |-> db, err |-> "ErrDbClosed", out |-> <<FALSE>>]
    ELSE [db |-> db, err |-> "nil", out |-> <<key \in DOMAIN db.m>>]

dbGet(db, key) ==
    IF ~db.open THEN [db |-> db, err |-> "ErrDbClosed", out |-> <<>>]
    ELSE IF key \in DOMAIN db.m THEN [db |-> db, err |-> "nil", out |-> <<db.m[key]>>]
    ELSE [db |-> db, err |-> "ErrKeyNotFound", out |-> <<>>]

dbPut(db, key, val) ==
    IF ~db.open THEN [db |-> db, err |-> "ErrDbClosed", out |-> <<>>]
    ELSE [db |-> [db EXCEPT !.m = mapPut(@, key, val)], err |-> "nil", out |-> <<>>]

dbDelete(db, key) ==
    IF ~db.open THEN [db |-> db, err |-> "ErrDbClosed", out |-> <<>>]
    ELSE [db |-> [db EXCEPT !.m = mapDelete(@, {key})], err |-> "nil", out |-> <<>>]

\* Stat reports the number of keys.
dbStat(db) ==
    IF ~db.open THEN [db |-> db, err |-> "ErrDbClosed", out |-> <<>>]
    ELSE [db |-> db, err |-> "nil", out |-> <<Cardinality(DOMAIN db.m)>>]

dbSyncKeyValue(db) ==
    IF ~db.open THEN [db |-> db, err |-> "ErrDbClosed", out |-> <<>>]
    ELSE [db |-> db, err |-> "nil", out |-> <<>>]

\* DeleteRange removes the keys in [start, end).
dbDeleteRange(db, start, end) ==
    IF ~db.open THEN [db |-> db, err |-> "ErrDbClosed", out |-> <<>>]
    ELSE [db |-> [db EXCEPT !.m = mapDelete(@,
                    {k \in DOMAIN @ : ~KeyLess(k, start) /\ KeyLess(k, end)})],
          err |-> "nil", out |-> <<>>]

RECURSIVE sortPairs(_, _)
\* The pairs of m with a key in keys, by ascending key.
sortPairs(m, keys) ==
    IF keys = {} THEN <<>>
    ELSE LET least == CHOOSE k \in keys : \A o \in keys \ {k} : KeyLess(k, o)
         IN  <<[key |-> least, val |-> m[least]]>> \o sortPairs(m, keys \ {least})

\* NewIterator ranges over the map, which is empty when it is nil, and
\* returns an iterator; the error of an iterator is always nil.
dbNewIterator(db, prefix, start) ==
    LET st == prefix \o start
        keys == {k \in DOMAIN db.m : HasPrefix(k, prefix) /\ ~KeyLess(k, st)}
    IN  [db |-> db, err |-> "nil", out |-> sortPairs(db.m, keys)]

\* Compact does nothing and returns nil.
dbCompact(db) == [db |-> db, err |-> "nil", out |-> <<>>]

RECURSIVE applyPairs(_, _)
\* The loop of batch.Write over the pairs of the batch.
applyPairs(m, pairs) ==
    IF pairs = <<>> THEN m
    ELSE applyPairs(IF Head(pairs).del THEN mapDelete(m, {Head(pairs).key})
                    ELSE mapPut(m, Head(pairs).key, Head(pairs).val),
                    Tail(pairs))

\* batch.Write: under the lock of the store, all pairs or none.
batchWrite(db, pairs) ==
    IF ~db.open THEN [db |-> db, err |-> "ErrDbClosed", out |-> <<>>]
    ELSE [db |-> [db EXCEPT !.m = applyPairs(@, pairs)], err |-> "nil", out |-> <<>>]

\* The batches of the generic operations: puts and deletes of KvKeys.
KvPairs == [key : KvKeys, val : KvVals, del : {FALSE}] \cup [key : KvKeys, val : {""}, del : {TRUE}]
KvBatches == SeqsUpTo(KvPairs, MaxBatch)

NoOp == [op |-> "none", err |-> "nil", out |-> <<>>, closed |-> FALSE]

\* A new store on which no operation was called.
InitMemDb ==
    /\ kvDb = NewDatabase
    /\ kvRes = NoOp

\* The call of one operation: r is what the operation gives; the result is
\* kept together with whether the store was closed when it was called.
kvCall(name, r) ==
    /\ kvDb' = r.db
    /\ kvRes' = [op |-> name, err |-> r.err, out |-> r.out, closed |-> ~kvDb.open]

KV_Close == kvCall("Close", dbClose(kvDb))
KV_Has == \E k \in KvKeys : kvCall("Has", dbHas(kvDb, k))
KV_Get == \E k \in KvKeys : kvCall("Get", dbGet(kvDb, k))
KV_Put == \E k \in KvKeys, v \in KvVals : kvCall("Put", dbPut(kvDb, k, v))
KV_Delete == \E k \in KvKeys : kvCall("Delete", dbDelete(kvDb, k))
KV_Stat == kvCall("Stat", dbStat(kvDb))
KV_SyncKeyValue == kvCall("SyncKeyValue", dbSyncKeyValue(kvDb))
KV_DeleteRange == \E s, e \in KvBounds : kvCall("DeleteRange", dbDeleteRange(kvDb, s, e))
KV_BatchWrite == \E pairs \in KvBatches : kvCall("BatchWrite", batchWrite(kvDb, pairs))
KV_NewIterator == \E p, s \in {<<>>, <<1>>, <<2>>} : kvCall("NewIterator", dbNewIterator(kvDb, p, s))
KV_Compact == kvCall("Compact", dbCompact(kvDb))

(***************************************************************************)
(* The header store (ethstore) on top of the key-value store.              *)
(***************************************************************************)

\* A header that cannot be RLP-encoded has a negative number.
BadNumber == 0 - 1
Extras == {1, 2}
StoredHeaders == [Number : 1..MaxHeight, Extra : Extras]
PutHeaders == StoredHeaders \cup [Number : {BadNumber}, Extra : {1}]
NoHeader == [Number |-> 0, Extra |-> 0]

\* header.Hash(): the bytes of the hash, different for different headers.
HeaderHash(h) == <<h.Number, h.Extra>>
HeaderHashes == {HeaderHash(h) : h \in StoredHeaders}

\* rlp.EncodeToBytes and rlp.DecodeBytes of a header.
rlpEncode(h) == <<h.Extra, h.Number>>
rlpDecode(val) == [Number |-> val[2], Extra |-> val[1]]
rlpEncodable(h) == h.Number >= 0

\* The bytes of "se:header:".
headerPrefix == <<0>>
\* encodeNumber: the number in big-endian bytes.
encodeNumber(num) == <<0, num>>
\* headerHashKey = se:header:<hash>
headerHashKey(hash) == headerPrefix \o hash
\* headerNumberKey = se:header::<num>
headerNumberKey(num) == headerPrefix \o <<Colon>> \o encodeNumber(num)

\* sync.RWMutex: the number of read locks held, and the writer, which
\* keeps new readers out from the moment it asks for the lock.
FreeMutex == [readers |-> 0, writer |-> "none"]

\* NewHeaderStore on a new store; no call is in progress.
InitHeaderStore ==
    /\ hsMu = FreeMutex
    /\ wPc = "idle"
    /\ wHeader = NoHeader
    /\ wRes = "none"
    /\ rPc = "idle"
    /\ rNum = 0
    /\ rHash = <<>>
    /\ rNested = FALSE
    /\ rRes = "none"
    /\ rHeader = NoHeader

writerVars == <<wPc, wHeader, wRes>>
readerVars == <<rPc, rNum, rHash, rNested, rRes, rHeader>>

\* Put is called: s.mu.Lock() announces the writer.
W_Call ==
    /\ wPc = "idle"
    /\ hsMu.writer = "none"
    /\ \E h \in PutHeaders : wHeader' = h
    /\ wPc' = "lock"
    /\ wRes' = "none"
    /\ hsMu' = [hsMu EXCEPT !.writer = "waiting"]
    /\ UNCHANGED <<kvDb, readerVars>>

\* s.mu.Lock() returns once no read lock is held.
W_Lock ==
    /\ wPc = "lock"
    /\ hsMu.readers = 0
    /\ hsMu' = [hsMu EXCEPT !.writer = "held"]
    /\ wPc' = "locked"
    /\ UNCHANGED <<kvDb, wHeader, wRes, readerVars>>

\* A Put whose batch holds the by-number entry alone.
W_WriteNumberOnly ==
    /\ wPc = "locked"
    /\ IF ~rlpEncodable(wHeader)
       THEN /\ wRes' = "err"
            /\ UNCHANGED kvDb
       ELSE LET pairs == <<[key |-> headerNumberKey(wHeader.Number), val |-> HeaderHash(wHeader), del |-> FALSE]>>
                r == batchWrite(kvDb, pairs)
            IN  /\ kvDb' = r.db
                /\ wRes' = IF r.err = "nil" THEN "ok" ELSE "err"
    /\ wPc' = "idle"
    /\ wHeader' = NoHeader
    /\ hsMu' = [hsMu EXCEPT !.writer = "none"]
    /\ UNCHANGED readerVars

\* Put under the lock: the header is encoded, the two entries are put in a
\* batch, the batch is written, and the deferred Unlock runs.
W_Write ==
    /\ wPc = "locked"
    /\ IF ~rlpEncodable(wHeader)
       THEN /\ wRes' = "err"
            /\ UNCHANGED kvDb
       ELSE LET pairs == <<[key |-> headerHashKey(HeaderHash(wHeader)), val |-> rlpEncode(wHeader), del |-> FALSE],
                           [key |-> headerNumberKey(wHeader.Number), val |-> HeaderHash(wHeader), del |-> FALSE]>>
                r == batchWrite(kvDb, pairs)
            IN  /\ kvDb' = r.db
                /\ wRes' = IF r.err = "nil" THEN "ok" ELSE "err"
    /\ wPc' = "idle"
    /\ wHeader' = NoHeader
    /\ hsMu' = [hsMu EXCEPT !.writer = "none"]
    /\ UNCHANGED readerVars

\* GetByNumber is called and s.mu.RLock() returns: no writer holds or
\* waits for the lock.
R_CallByNumber ==
    /\ rPc = "idle"
    /\ hsMu.writer = "none"
    /\ \E n \in 1..MaxHeight : rNum' = n
    /\ rPc' = "num"
    /\ rHash' = <<>>
    /\ rNested' = TRUE
    /\ rRes' = "none"
    /\ rHeader' = NoHeader
    /\ hsMu' = [hsMu EXCEPT !.readers = @ + 1]
    /\ UNCHANGED <<kvDb, writerVars>>

\* GetByNumber: s.db.Get(headerNumberKey(num)).
R_GetNumber ==
    /\ rPc = "num"
    /\ LET r == dbGet(kvDb, headerNumberKey(rNum))
       IN  IF r.err = "nil"
           THEN /\ rHash' = r.out[1]
                /\ rPc' = "rlock"
                /\ UNCHANGED <<rRes, hsMu>>
           ELSE /\ rRes' = IF r.err = "ErrKeyNotFound" THEN "ErrHeaderNotFound" ELSE r.err
                /\ rPc' = "idle"
                /\ hsMu' = [hsMu EXCEPT !.readers = @ - 1]
                /\ UNCHANGED rHash
    /\ UNCHANGED <<kvDb, writerVars, rNum, rNested, rHeader>>

\* GetByNumber calls GetByHash while it holds the read lock: s.mu.RLock()
\* again.
R_RLock ==
    /\ rPc = "rlock"
    /\ hsMu.writer = "none"
    /\ hsMu' = [hsMu EXCEPT !.readers = @ + 1]
    /\ rPc' = "hash"
    /\ UNCHANGED <<kvDb, writerVars, rNum, rHash, rNested, rRes, rHeader>>

\* GetByHash is called by a client of the store.
R_CallByHash ==
    /\ rPc = "idle"
    /\ hsMu.writer = "none"
    /\ \E hash \in HeaderHashes : rHash' = hash
    /\ rPc' = "hash"
    /\ rNum' = 0
    /\ rNested' = FALSE
    /\ rRes' = "none"
    /\ rHeader' = NoHeader
    /\ hsMu' = [hsMu EXCEPT !.readers = @ + 1]
    /\ UNCHANGED <<kvDb, writerVars>>

\* GetByHash: s.db.Get(headerHashKey(hash)), the decoding, and the
\* deferred RUnlock; then, inside GetByNumber, its return and RUnlock.
R_GetHash ==
    /\ rPc = "hash"
    /\ LET r == dbGet(kvDb, headerHashKey(rHash))
           err == IF r.err = "ErrKeyNotFound" THEN "ErrHeaderNotFound" ELSE r.err
       IN  IF r.err = "nil"
           THEN /\ rHeader' = rlpDecode(r.out[1])
                /\ rRes' = "ok"
           ELSE /\ rHeader' = NoHeader
                /\ rRes' = IF rNested THEN "failed to get header by hash: " \o err ELSE err
    /\ rPc' = "idle"
    /\ hsMu' = [hsMu EXCEPT !.readers = @ - (IF rNested THEN 2 ELSE 1)]
    /\ UNCHANGED <<kvDb, writerVars, rNum, rHash, rNested>>

\* Node.Shutdown closes the store the header store writes to.
HS_Close ==
    /\ kvDb.open
    /\ kvDb' = dbClose(kvDb).db
    /\ UNCHANGED <<hsMu, writerVars, readerVars>>

(***************************************************************************)
(* The subscriber map of the dispatcher, with the identity of channels.    *)
(***************************************************************************)

\* The ids Subscribe is called with.
SubIds == {"id", "this", "that"}
\* No channel: the id is not in the map, or nothing was returned.
NoChan == 0

\* NewDispatcher: an empty map; no channel was made and no call returned.
InitSubscriptions ==
    /\ dsMap = [id \in SubIds |-> NoChan]
    /\ dsNext = 1
    /\ dsClosed = {}
    /\ dsCalls = [id \in SubIds |-> 0]
    /\ dsFirst = [id \in SubIds |-> NoChan]
    /\ dsLast = [id \in SubIds |-> NoChan]

\* What the callers of Subscribe(id) remember: the number of calls since
\* the id was last removed, up to two, and the first and the last channel
\* these calls returned.
returned(id, ch) ==
    /\ dsCalls' = [dsCalls EXCEPT ![id] = IF @ = 0 THEN 1 ELSE 2]
    /\ dsFirst' = [dsFirst EXCEPT ![id] = IF @ = NoChan THEN ch ELSE @]
    /\ dsLast' = [dsLast EXCEPT ![id] = ch]

\* A Subscribe that makes a channel for every call.
D_SubscribeAlwaysNew(id) ==
    /\ dsNext <= MaxChans
    /\ dsMap' = [dsMap EXCEPT ![id] = dsNext]
    /\ dsNext' = dsNext + 1
    /\ returned(id, dsNext)
    /\ UNCHANGED dsClosed

\* Dispatcher.Subscribe, under d.mu: the channel of the id when it has
\* one, else a channel made now and put into the map.
D_Subscribe(id) ==
    IF dsMap[id] # NoChan
    THEN /\ returned(id, dsMap[id])
         /\ UNCHANGED <<dsMap, dsNext, dsClosed>>
    ELSE /\ dsNext <= MaxChans
         /\ dsMap' = [dsMap EXCEPT ![id] = dsNext]
         /\ dsNext' = dsNext + 1
         /\ returned(id, dsNext)
         /\ UNCHANGED dsClosed

\* Dispatcher.Unsubscribe, under d.mu: the id is deleted and its channel
\* closed; nothing happens for an id without a channel.
D_Unsubscribe(id) ==
    /\ IF dsMap[id] # NoChan
       THEN /\ dsMap' = [dsMap EXCEPT ![id] = NoChan]
            /\ dsClosed' = dsClosed \cup {dsMap[id]}
       ELSE UNCHANGED <<dsMap, dsClosed>>
    /\ dsCalls' = [dsCalls EXCEPT ![id] = 0]
    /\ dsFirst' = [dsFirst EXCEPT ![id] = NoChan]
    /\ dsLast' = [dsLast EXCEPT ![id] = NoChan]
    /\ UNCHANGED dsNext

\* Dispatcher.Close, under d.mu: every channel is closed and the map is
\* replaced by an empty one.
D_Close ==
    /\ dsClosed' = dsClosed \cup {dsMap[id] : id \in {i \in SubIds : dsMap[i] # NoChan}}
    /\ dsMap' = [id \in SubIds |-> NoChan]
    /\ dsCalls' = [id \in SubIds |-> 0]
    /\ dsFirst' = [id \in SubIds |-> NoChan]
    /\ dsLast' = [id \in SubIds |-> NoChan]
    /\ UNCHANGED dsNext

(***************************************************************************)
(* The reverting state database on its own: writes, Commit and Revert.     *)
(***************************************************************************)

\* The account the writes go to.
RvAddrs == {"A"}

\* The values of the accounts and slots of a state.
StateOf(db) == [acc |-> db.acc, storage |-> db.storage]

\* NewRevertingStateDB on an empty state, which is the state at the last
\* commit.
InitReverting ==
    /\ rvDb = EmptyDb
    /\ rvBase = StateOf(EmptyDb)
    /\ rvLast = "none"

RV_SetNonce ==
    /\ Len(rvDb.journal) < MaxWrites
    /\ \E a \in RvAddrs, v \in Values : rvDb' = SetNonce(rvDb, a, v)
    /\ rvLast' = "write"
    /\ UNCHANGED rvBase

RV_SetBalance ==
    /\ Len(rvDb.journal) < MaxWrites
    /\ \E a \in RvAddrs, v \in Values : rvDb' = SetBalance(rvDb, a, v)
    /\ rvLast' = "write"
    /\ UNCHANGED rvBase

RV_SetCode ==
    /\ Len(rvDb.journal) < MaxWrites
    /\ \E a \in RvAddrs, c \in Codes : rvDb' = SetCode(rvDb, a, c)
    /\ rvLast' = "write"
    /\ UNCHANGED rvBase

RV_SetState ==
    /\ Len(rvDb.journal) < MaxWrites
    /\ \E a \in RvAddrs, k \in Slots, v \in Values : rvDb' = SetState(rvDb, a, k, v)
    /\ rvLast' = "write"
    /\ UNCHANGED rvBase

\* RevertingStateDB.Commit: the journal is reset and the state is written.
RV_Commit ==
    /\ rvDb' = journalReset(rvDb)
    /\ rvBase' = StateOf(rvDb)
    /\ rvLast' = "commit"

\* RevertingStateDB.Revert
RV_Revert ==
    /\ rvDb' = Revert(rvDb)
    /\ rvLast' = "revert"
    /\ UNCHANGED rvBase

(***************************************************************************)
(* The tracing state database and Preparer.LoadState.                      *)
(***************************************************************************)

\* newTracer: nothing written, no uninitialized read.
newTracer ==
    [accWrites |-> {},
     storageWrites |-> [a \in SAddrs |-> {}],
     uninitializedAccReads |-> {},
     uninitializedStorageReads |-> [a \in SAddrs |-> {}]]

\* An OnReadAccount that records every read.
OnReadAccountAlways(t, addr) ==
    [t EXCEPT !.uninitializedAccReads = @ \cup {addr}]

\* tracer.OnReadAccount
OnReadAccount(t, addr) ==
    IF addr \notin t.accWrites
    THEN [t EXCEPT !.uninitializedAccReads = @ \cup {addr}]
    ELSE t

\* tracer.OnWriteAccount
OnWriteAccount(t, addr) == [t EXCEPT !.accWrites = @ \cup {addr}]

\* tracer.OnReadStorage
OnReadStorage(t, addr, key) ==
    IF key \notin t.storageWrites[addr]
    THEN [t EXCEPT !.uninitializedStorageReads[addr] = @ \cup {key}]
    ELSE t

\* tracer.OnWriteStorage
OnWriteStorage(t, addr, key) == [t EXCEPT !.storageWrites[addr] = @ \cup {key}]

\* A TracingStateDB: its tracer and the accounts its inner state holds.
\* NewWithEmptyTraces on the empty root:
NewWithEmptyTraces == [tracer |-> newTracer, exists |-> {}]

\* A New that starts with a fresh tracer.
NewFresh(old) == [tracer |-> newTracer, exists |-> old.exists]

\* New(root, old) for the root old was committed to: the inner state is
\* opened again, the tracer is the tracer of old.
New(old) == [tracer |-> old.tracer, exists |-> old.exists]

\* A Commit that leaves a fresh tracer behind.
tsCommitFresh(w) == [tracer |-> newTracer, exists |-> w.exists]

\* TracingStateDB.Commit: the commit of the inner state; the tracer is not
\* part of it.
tsCommit(w) == [tracer |-> w.tracer, exists |-> w.exists]

\* TracingStateDB.CreateAccount and CreateContract
tsCreateAccount(w, addr) ==
    [tracer |-> OnWriteAccount(w.tracer, addr), exists |-> w.exists \cup {addr}]

\* TracingStateDB.SetNonce, SetBalance and SetCode go to the inner state
\* alone, which makes the account when it has none.
tsSetAccount(w, addr) == [w EXCEPT !.exists = @ \cup {addr}]

\* TracingStateDB.SetState
tsSetState(w, addr, key) ==
    [tracer |-> OnWriteStorage(w.tracer, addr, key), exists |-> w.exists \cup {addr}]

\* TracingStateDB.GetBalance, GetNonce, GetCodeHash, GetCode and
\* GetStorageRoot
tsGetAccount(w, addr) == [w EXCEPT !.tracer = OnReadAccount(@, addr)]

\* TracingStateDB.SubBalance and AddBalance: a read for the tracer, a write
\* for the inner state.
tsAddBalance(w, addr) ==
    [tracer |-> OnReadAccount(w.tracer, addr), exists |-> w.exists \cup {addr}]

\* TracingStateDB.GetState
tsGetState(w, addr, key) == [w EXCEPT !.tracer = OnReadStorage(@, addr, key)]

\* Preparer.createAccount without its provider errors: chain holds the
\* accounts that exist at the previous header.
createAccount(w, addr, chain) ==
    IF addr \in w.exists THEN w
    ELSE IF addr \notin chain THEN w
    ELSE tsSetAccount(tsCreateAccount(w, addr), addr)

RECURSIVE createSlots(_, _, _)
\* The loop over the slots of a traced account.
createSlots(w, addr, slots) ==
    IF slots = {} THEN w
    ELSE LET k == CHOOSE s \in slots : TRUE
         IN  createSlots(IF addr \in w.exists THEN tsSetState(w, addr, k) ELSE w,
                         addr, slots \ {k})

RECURSIVE createTraced(_, _, _)
\* The loop over the accounts of the trace of a transaction.
createTraced(w, trace, chain) ==
    IF trace = {} THEN w
    ELSE LET acc == CHOOSE a \in trace : TRUE
         IN  createTraced(createSlots(createAccount(w, acc.Address, chain), acc.Address, acc.Slots),
                          trace \ {acc}, chain)

\* Preparer.createStateForTx
createStateForTx(w, tx, chain) ==
    LET sender == createAccount(w, tx.Sender, chain)
        to == IF tx.To # NoAddr THEN createAccount(sender, tx.To, chain) ELSE sender
    IN  createTraced(to, tx.Trace, chain)

RECURSIVE createStateForTxs(_, _, _)
createStateForTxs(w, txs, chain) ==
    IF txs = <<>> THEN w
    ELSE createStateForTxs(createStateForTx(w, Head(txs), chain), Tail(txs), chain)

\* Preparer.LoadState without its provider errors.
LoadState(coinbase, txs, chain) ==
    New(createStateForTxs(createAccount(NewWithEmptyTraces, coinbase, chain), txs, chain))

\* The transactions LoadState is called with, with the accounts and slots
\* of their traces.
TracedAccounts == [Address : SAddrs, Slots : SUBSET Slots]
LoadTxs == [Sender : SAddrs, To : SAddrs \cup {NoAddr},
            Trace : {{}} \cup {{acc} : acc \in TracedAccounts}]
NoLoad == [coinbase |-> NoAddr, txs |-> <<>>, chain |-> {}]
NoCall == [op |-> "none", addr |-> NoAddr, slot |-> ""]

\* ProcessBlock is about to call LoadState.
InitTracing ==
    /\ tsPhase = "new"
    /\ tsWorld = NewWithEmptyTraces
    /\ tsIn = NoLoad
    /\ tsOp = NoCall

\* LoadState returns the state for a header, its filtered transactions
\* and the accounts of the chain.
TS_LoadState ==
    /\ tsPhase = "new"
    /\ \E coinbase \in SAddrs, txs \in SeqsUpTo(LoadTxs, MaxLoadTxs), chain \in SUBSET SAddrs :
        /\ tsIn' = [coinbase |-> coinbase, txs |-> txs, chain |-> chain]
        /\ tsWorld' = LoadState(coinbase, txs, chain)
    /\ tsPhase' = "loaded"
    /\ tsOp' = [op |-> "LoadState", addr |-> NoAddr, slot |-> ""]

\* LoadState returns an error of the header store, the provider or the
\* commit, and no state.
TS_LoadStateFails ==
    /\ tsPhase = "new"
    /\ tsPhase' = "failed"
    /\ UNCHANGED <<tsWorld, tsIn, tsOp>>

\* ExecuteTxs starts on the state LoadState returned.
TS_Execute ==
    /\ tsPhase = "loaded"
    /\ tsPhase' = "exec"
    /\ tsIn' = NoLoad
    /\ tsOp' = NoCall
    /\ UNCHANGED tsWorld

\* One call of the execution on the state: w is the state it leaves.
tsCall(name, addr, slot, w) ==
    /\ tsPhase = "exec"
    /\ tsWorld' = w
    /\ tsOp' = [op |-> name, addr |-> addr, slot |-> slot]
    /\ UNCHANGED <<tsPhase, tsIn>>

TS_GetAccount == \E a \in SAddrs : tsCall("GetAccount", a, "", tsGetAccount(tsWorld, a))
TS_AddBalance == \E a \in SAddrs : tsCall("AddBalance", a, "", tsAddBalance(tsWorld, a))
TS_GetState == \E a \in SAddrs, k \in Slots : tsCall("GetState", a, k, tsGetState(tsWorld, a, k))
TS_CreateAccount == \E a \in SAddrs : tsCall("CreateAccount", a, "", tsCreateAccount(tsWorld, a))
TS_SetAccount == \E a \in SAddrs : tsCall("SetAccount", a, "", tsSetAccount(tsWorld, a))
TS_SetState == \E a \in SAddrs, k \in Slots : tsCall("SetState", a, k, tsSetState(tsWorld, a, k))
\* transientWorld.Commit after the execution of a transaction.
TS_Commit == tsCall("Commit", NoAddr, "", tsCommit(tsWorld))
\* New(root, transientWorld) for the root of the commit.
TS_New == tsCall("New", NoAddr, "", New(tsWorld))
\* NewWithEmptyTraces on the database of the state.
TS_NewWithEmptyTraces ==
    tsCall("NewWithEmptyTraces", NoAddr, "",
           [tracer |-> NewWithEmptyTraces.tracer, exists |-> tsWorld.exists])

(***************************************************************************)
(* Concurrent callers of Broadcast, Subscribe, Unsubscribe and Close.      *)
(***************************************************************************)

\* The goroutines that call into the dispatcher.
Callers == {"c1", "c2"}
DispatcherOps == {"Broadcast", "Subscribe", "Unsubscribe", "Close"}
IdleCaller == [op |-> "none", id |-> "", at |-> "idle"]
Chans == 1 .. MaxChans

\* No caller is inside the dispatcher.
InitCallers ==
    /\ cdMu = "none"
    /\ cdPc = [c \in Callers |-> IdleCaller]
    /\ cdTodo = {}
    /\ cdCloses = [ch \in Chans |-> 0]
    /\ cdSentClosed = {}

\* A goroutine calls an operation of the dispatcher; each starts with
\* d.mu.Lock().
CD_Call(c) ==
    /\ cdPc[c].at = "idle"
    /\ \E op \in DispatcherOps, id \in SubIds :
        cdPc' = [cdPc EXCEPT ![c] = [op |-> op, id |-> id, at |-> "lock"]]
    /\ UNCHANGED <<cdMu, cdTodo, cdCloses, cdSentClosed, subscriptionVars>>

\* The channels in d.subs.
mapChans == {dsMap[id] : id \in {i \in SubIds : dsMap[i] # NoChan}}

\* A Lock that returns although another caller holds d.mu.
CD_LockNoWait(c) ==
    /\ cdPc[c].at = "lock"
    /\ cdMu' = c
    /\ cdPc' = [cdPc EXCEPT ![c].at = "locked"]
    /\ cdTodo' = IF cdPc[c].op = "Broadcast" THEN mapChans ELSE cdTodo
    /\ UNCHANGED <<cdCloses, cdSentClosed, subscriptionVars>>

\* d.mu.Lock() returns; Broadcast starts its range over d.subs.
CD_Lock(c) ==
    /\ cdPc[c].at = "lock"
    /\ cdMu = "none"
    /\ cdMu' = c
    /\ cdPc' = [cdPc EXCEPT ![c].at = "locked"]
    /\ cdTodo' = IF cdPc[c].op = "Broadcast" THEN mapChans ELSE cdTodo
    /\ UNCHANGED <<cdCloses, cdSentClosed, subscriptionVars>>

\* The body of Subscribe and the deferred d.mu.Unlock().
CD_Subscribe(c) ==
    /\ cdPc[c].at = "locked"
    /\ cdPc[c].op = "Subscribe"
    /\ D_Subscribe(cdPc[c].id)
    /\ cdMu' = "none"
    /\ cdPc' = [cdPc EXCEPT ![c] = IdleCaller]
    /\ UNCHANGED <<cdTodo, cdCloses, cdSentClosed>>

\* The body of Unsubscribe, with its close(ch), and the deferred Unlock.
CD_Unsubscribe(c) ==
    /\ cdPc[c].at = "locked"
    /\ cdPc[c].op = "Unsubscribe"
    /\ D_Unsubscribe(cdPc[c].id)
    /\ cdCloses' = [ch \in Chans |->
                       IF ch = dsMap[cdPc[c].id] /\ cdCloses[ch] < 2
                       THEN cdCloses[ch] + 1 ELSE cdCloses[ch]]
    /\ cdMu' = "none"
    /\ cdPc' = [cdPc EXCEPT ![c] = IdleCaller]
    /\ UNCHANGED <<cdTodo, cdSentClosed>>

\* The body of Close, with a close(ch) for every channel of the map, and
\* the deferred Unlock.
CD_Close(c) ==
    /\ cdPc[c].at = "locked"
    /\ cdPc[c].op = "Close"
    /\ D_Close
    /\ cdCloses' = [ch \in Chans |->
                       IF ch \in mapChans /\ cdCloses[ch] < 2
                       THEN cdCloses[ch] + 1 ELSE cdCloses[ch]]
    /\ cdMu' = "none"
    /\ cdPc' = [cdPc EXCEPT ![c] = IdleCaller]
    /\ UNCHANGED <<cdTodo, cdSentClosed>>

\* One turn of the loop of Broadcast: the select with its send on a
\* channel of the map.
CD_Send(c) ==
    /\ cdPc[c].at = "locked"
    /\ cdPc[c].op = "Broadcast"
    /\ \E ch \in cdTodo :
        /\ cdTodo' = cdTodo \ {ch}
        /\ cdSentClosed' = IF ch \in dsClosed
                           THEN cdSentClosed \cup {ch} ELSE cdSentClosed
    /\ UNCHANGED <<cdMu, cdPc, cdCloses, subscriptionVars>>

\* Broadcast: the loop is over and the deferred d.mu.Unlock() runs.
CD_Return(c) ==
    /\ cdPc[c].at = "locked"
    /\ cdPc[c].op = "Broadcast"
    /\ cdTodo = {}
    /\ cdMu' = "none"
    /\ cdPc' = [cdPc EXCEPT ![c] = IdleCaller]
    /\ UNCHANGED <<cdTodo, cdCloses, cdSentClosed, subscriptionVars>>

(***************************************************************************)
(* The event monitor: LogProcessor.ProcessBlock behind the dispatcher.     *)
(***************************************************************************)

\* The logs the monitored contract can emit: the logs of its ABI, which it
\* chains into its head.
EmittedLogs == {l \in LogUniverse : ~computeNewHead(0, l).err}
EmittedLists == SeqsUpTo(EmittedLogs, MaxLogs)

NoProcess == [block |-> 0, served |-> FALSE, result |-> "none", headBefore |-> 0]

\* NewLogProcessor with the initial head of the contract; the chain is at
\* its genesis block, which has no logs.
InitEventMonitor ==
    /\ emChain = [num |-> 0, logs |-> <<>>, head |-> 0]
    /\ emNext = 1
    /\ emVHead = 0
    /\ emMissed = {}
    /\ emLast = NoProcess

\* A block is added to the chain once the header of the one before went
\* through the dispatcher; the contract chains the logs it emits in the
\* block into the head it keeps in its storage slot.
EM_NewBlock ==
    /\ emChain.num < MaxEvBlocks
    /\ emNext > emChain.num
    /\ \E logs \in EmittedLists :
        emChain' = [num |-> emChain.num + 1, logs |-> logs,
                    head |-> foldLogs(emChain.head, logs, 1).head]
    /\ UNCHANGED <<emNext, emVHead, emMissed, emLast>>

\* Dispatcher.Broadcast takes the default branch for the monitor: its
\* buffer is full and the header of the block is dropped.
EM_Drop ==
    /\ emNext = emChain.num
    /\ emMissed' = IF emChain.logs # <<>> THEN emMissed \cup {emNext} ELSE emMissed
    /\ emNext' = emNext + 1
    /\ UNCHANGED <<emChain, emVHead, emLast>>

\* LogProcessor.ProcessBlock for the header of the next block: the logs
\* from GetLogsAtBlock (not verified: the logs of the block, or none), the
\* expected head from GetStorageAtBlock (verified by proof), VerifyLogs and
\* PutAll; an error of a provider call or of the store is returned.
processBlock(head, block, logsErr, storageErr, logs, putErr) ==
    IF logsErr \/ storageErr THEN [result |-> "err", head |-> head]
    ELSE LET r == VerifyLogs(head, logs, block.head)
         IN  IF r.result = "err" THEN r
             ELSE IF putErr THEN [result |-> "err", head |-> r.head]
             ELSE r

\* The monitor takes the header of the next block from its channel and
\* calls ProcessBlock; an error is logged and the loop goes on.
EM_ProcessBlock ==
    /\ emNext = emChain.num
    /\ \E logsErr, storageErr, putErr \in BOOLEAN, logs \in {emChain.logs, <<>>} :
        LET r == processBlock(emVHead, emChain, logsErr, storageErr, logs, putErr)
        IN  /\ emVHead' = r.head
            /\ emLast' = [block |-> emNext,
                          served |-> ~logsErr /\ ~storageErr /\ ~putErr
                                     /\ logs = emChain.logs,
                          result |-> r.result,
                          headBefore |-> emVHead]
            /\ emMissed' = IF r.result = "err" /\ emChain.logs # <<>>
                           THEN emMissed \cup {emNext} ELSE emMissed
    /\ emNext' = emNext + 1
    /\ UNCHANGED emChain

(***************************************************************************)
(* TxProcessor.ProcessBlock under a context that may be cancelled.         *)
(***************************************************************************)

\* The context of the monitor is not cancelled.
InitCancel == sCancelAt = "none"

\* The context is cancelled while ProcessBlock runs.
PB_Cancel ==
    /\ sCancelAt = "none"
    /\ sPc \notin {"idle", "returned", "panicked"}
    /\ sCancelAt' = sPc
    /\ UNCHANGED sparseVars

\* A step of ProcessBlock that passes ctx to the provider: with a cancelled
\* context the call fails (part_019:607, 613, 625, 647, 659).
withCtx(step) ==
    /\ step
    /\ sCancelAt # "none" => sResult' = "err"
    /\ UNCHANGED sCancelAt

\* A step of ProcessBlock that takes no context: merge, Commit, WithRoot
\* (part_019:653-655, 667, 673).
withoutCtx(step) == step /\ UNCHANGED sCancelAt

\* Monitor.RunContext hands over the next header unless it took ctx.Done.
PBC_Start == sCancelAt = "none" /\ PB_Start /\ UNCHANGED sCancelAt

(***************************************************************************)
(* The tracer on its own: any sequence of reads and writes.                *)
(***************************************************************************)

\* newTracer; no call yet.
InitTracer ==
    /\ trTracer = newTracer
    /\ trLog = <<>>

\* One call on the tracer, as the TracingStateDB makes them.
trCall(kind, addr, slot, t) ==
    /\ Len(trLog) < MaxTrace
    /\ trTracer' = t
    /\ trLog' = Append(trLog, [kind |-> kind, addr |-> addr, slot |-> slot])

TR_OnReadAccount == \E a \in SAddrs : trCall("readAccount", a, "", OnReadAccount(trTracer, a))
TR_OnWriteAccount == \E a \in SAddrs : trCall("writeAccount", a, "", OnWriteAccount(trTracer, a))
TR_OnReadStorage ==
    \E a \in SAddrs, k \in Slots : trCall("readStorage", a, k, OnReadStorage(trTracer, a, k))
TR_OnWriteStorage ==
    \E a \in SAddrs, k \in Slots : trCall("writeStorage", a, k, OnWriteStorage(trTracer, a, k))

(***************************************************************************)
(* Verifier.VerifyCompleteness with its provider calls.                    *)
(***************************************************************************)

\* Verifier.VerifyCompleteness for a contract account with a count slot:
\* GetAccountAtBlock fails, or hands over nil (the account passes) or the
\* account; then the account check, GetStorageAtBlock for the counter,
\* which may fail, and the comparison of the counter.
VerifyCompletenessWithProvider(db, addr, expected, errs) ==
    IF errs.account THEN "err"
    ELSE IF ~expected.exists THEN "ok"
    ELSE IF ~verifyExternallyOwnedAccount(db, addr, expected) THEN "err"
    ELSE IF errs.counter THEN "err"
    ELSE IF db.storage[addr]["count"] # expected.storage["count"] THEN "err"
    ELSE "ok"

\* The worlds the check is called on: the monitored account in any form,
\* the other accounts absent.
Worlds ==
    {[acc |-> [a \in SAddrs |-> IF a \in MonitoredAccs THEN form ELSE NoAccount],
      storage |-> [a \in SAddrs |-> IF a \in MonitoredAccs THEN st ELSE [k \in Slots |-> 0]]] :
        form \in [exists : BOOLEAN, nonce : Values, balance : Values, code : Codes],
        st \in [Slots -> Values]}

NoErrs == [account |-> FALSE, counter |-> FALSE]

\* No call yet.
InitCompleteness ==
    /\ vcDb = [acc |-> EmptyDb.acc, storage |-> EmptyDb.storage]
    /\ vcExpected = [NoAccount EXCEPT !.exists = FALSE] @@ [storage |-> [k \in Slots |-> 0]]
    /\ vcErrs = NoErrs
    /\ vcResult = "none"

\* One call of VerifyCompleteness for the monitored account.
VC_Call ==
    /\ vcResult = "none"
    /\ \E db \in Worlds, expected \in ChainAccounts, errs \in [account : BOOLEAN, counter : BOOLEAN] :
        /\ vcDb' = db
        /\ vcExpected' = expected
        /\ vcErrs' = errs
        /\ vcResult' = VerifyCompletenessWithProvider(db, "A", expected, errs)

\* The caller has looked at the result; nothing of the call is kept.
VC_Returned ==
    /\ vcResult # "none"
    /\ vcResult' = "none"
    /\ vcDb' = [acc |-> EmptyDb.acc, storage |-> EmptyDb.storage]
    /\ vcExpected' = [NoAccount EXCEPT !.exists = FALSE] @@ [storage |-> [k \in Slots |-> 0]]
    /\ vcErrs' = NoErrs

(***************************************************************************)
(* Verifier.VerifyUninitializedReads and what ProcessBlock does with it.   *)
(***************************************************************************)

\* An account check that takes an account the chain holds for absent.
verifyAccountReadAny(acc, chain, errs) ==
    IF acc \in errs.accounts THEN "err" ELSE "ok"

\* Verifier.verifyAccountRead: GetAccountAtBlock at the previous header
\* fails, or hands over the account (an error) or nil.
verifyAccountRead(acc, chain, errs) ==
    IF acc \in errs.accounts THEN "err"
    ELSE IF acc \in chain.exists THEN "err"
    ELSE "ok"

RECURSIVE verifySlots(_, _, _, _)
\* The loop over tuple.Slots of verifyStorageRead: GetStorageAtBlock fails,
\* or the value is compared with the zero hash; the first error ends it.
verifySlots(addr, todo, chain, errs) ==
    IF todo = {} THEN "ok"
    ELSE LET slot == CHOOSE k \in todo : TRUE
         IN  IF <<addr, slot>> \in errs.slots THEN "err"
             ELSE IF <<addr, slot>> \in chain.nonDefault THEN "err"
             ELSE verifySlots(addr, todo \ {slot}, chain, errs)

\* A storage check that fetches the slots and never looks at their values.
verifyStorageReadNoValues(tuple, chain, errs) ==
    IF tuple.Address \in errs.accounts THEN "err"
    ELSE IF tuple.Address \notin chain.exists THEN "ok"
    ELSE IF \E k \in tuple.Slots : <<tuple.Address, k>> \in errs.slots THEN "err"
    ELSE "ok"

\* Verifier.verifyStorageRead for a StorageRead tuple: the account at the
\* previous header, and for an account the chain holds the loop over the
\* slots.
verifyStorageRead(tuple, chain, errs) ==
    IF tuple.Address \in errs.accounts THEN "err"
    ELSE IF tuple.Address \notin chain.exists THEN "ok"
    ELSE verifySlots(tuple.Address, tuple.Slots, chain, errs)

RECURSIVE verifyAccountReads(_, _, _)
\* The loop over world.UninitializedAccountReads(), which stops at the
\* first error.
verifyAccountReads(todo, chain, errs) ==
    IF todo = {} THEN "ok"
    ELSE LET acc == CHOOSE a \in todo : TRUE
         IN  IF verifyAccountRead(acc, chain, errs) = "err" THEN "err"
             ELSE verifyAccountReads(todo \ {acc}, chain, errs)

RECURSIVE verifyStorageReads(_, _, _)
\* The loop over world.UninitializedStorageReads(); each account in todo
\* read its count slot.
verifyStorageReads(todo, chain, errs) ==
    IF todo = {} THEN "ok"
    ELSE LET acc == CHOOSE a \in todo : TRUE
         IN  IF verifyStorageRead([Address |-> acc, Slots |-> Slots], chain, errs) = "err"
             THEN "err"
             ELSE verifyStorageReads(todo \ {acc}, chain, errs)

\* Verifier.VerifyUninitializedReads: the previous header from the store,
\* then the two loops.
VerifyUninitializedReads(reads, slotReads, chain, errs) ==
    IF errs.header THEN "err"
    ELSE IF verifyAccountReads(reads, chain, errs) = "err" THEN "err"
    ELSE verifyStorageReads(slotReads, chain, errs)

\* The chain at the previous header: the accounts it holds and the slots
\* whose value is not zero.
ChainsBefore == [exists : SUBSET SAddrs, nonDefault : SUBSET (SAddrs \X Slots)]
\* What fails: the header store, GetAccountAtBlock per account and
\* GetStorageAtBlock per slot.
UninitErrs ==
    [header : BOOLEAN, accounts : SUBSET SAddrs, slots : SUBSET (SAddrs \X Slots)]

NoUninitCall ==
    [made |-> FALSE, reads |-> {}, slotReads |-> {},
     chain |-> [exists |-> {}, nonDefault |-> {}],
     errs |-> [header |-> FALSE, accounts |-> {}, slots |-> {}], result |-> "ok"]

\* The persistent world before the block: empty, or holding the monitored
\* account with one of two nonces.
UninitWorlds ==
    {w \in Worlds : \A a \in SAddrs :
        /\ w.acc[a].balance = 0 /\ w.acc[a].code = ""
        /\ (~w.acc[a].exists => w.acc[a].nonce = 0)
        /\ w.storage[a] = [k \in Slots |-> 0]}

\* ProcessBlock has executed the transactions; the persistent world is as
\* the blocks before left it.
InitUninit ==
    /\ urPc = "uninit"
    /\ urDb \in {[acc |-> w.acc, storage |-> w.storage, journal |-> <<>>] : w \in UninitWorlds}
    /\ urPre = [acc |-> urDb.acc, storage |-> urDb.storage]
    /\ urCall = NoUninitCall

\* The other components see the processor at rest on an empty world.
InitUninitIdle ==
    /\ urPc = "uninit"
    /\ urDb = EmptyDb
    /\ urPre = [acc |-> EmptyDb.acc, storage |-> EmptyDb.storage]
    /\ urCall = NoUninitCall

\* verifier.VerifyUninitializedReads on the trace of the transient world
\* (part_019:646-650): on an error ProcessBlock returns.
UR_Verify ==
    /\ urPc = "uninit"
    /\ \E reads \in SUBSET SAddrs, slotReads \in SUBSET SAddrs,
          chain \in ChainsBefore, errs \in UninitErrs :
        LET res == VerifyUninitializedReads(reads, slotReads, chain, errs)
        IN  /\ urCall' = [made |-> TRUE, reads |-> reads, slotReads |-> slotReads,
                          chain |-> chain, errs |-> errs, result |-> res]
            /\ urPc' = IF res = "ok" THEN "merge" ELSE "returned"
    /\ UNCHANGED <<urDb, urPre>>

\* p.merge (part_019:652-655) with the transient world of the execution;
\* the arguments of the finished call are no longer kept.
UR_Merge ==
    /\ urPc = "merge"
    /\ \E t \in Transients : ValidTransient(t) /\ urDb' = merge(urDb, t)
    /\ urPc' = "verify"
    /\ urCall' = [NoUninitCall EXCEPT !.made = TRUE]
    /\ UNCHANGED urPre

(***************************************************************************)
(* Verifier.verifyStorageRead on one StorageRead.                          *)
(***************************************************************************)

\* The slots a transaction reads of the account of the tuple.
ReadSlots == {"s1", "s2"}
\* The account of the tuple.
ReadAddr == "A"

\* No call yet.
InitStorageRead ==
    /\ srTuple = [Address |-> ReadAddr, Slots |-> {}]
    /\ srChain = [exists |-> {}, nonDefault |-> {}]
    /\ srErrs = [header |-> FALSE, accounts |-> {}, slots |-> {}]
    /\ srResult = "none"

\* One call of verifyStorageRead: the tracer hands over an account together
\* with at least one slot.
SR_Call ==
    /\ srResult = "none"
    /\ \E slots \in (SUBSET ReadSlots) \ {{}},
          exists \in SUBSET {ReadAddr},
          nonDefault \in SUBSET ({ReadAddr} \X ReadSlots),
          accErr \in SUBSET {ReadAddr},
          slotErr \in SUBSET ({ReadAddr} \X ReadSlots) :
        LET tuple == [Address |-> ReadAddr, Slots |-> slots]
            chain == [exists |-> exists, nonDefault |-> nonDefault]
            errs == [header |-> FALSE, accounts |-> accErr, slots |-> slotErr]
        IN  /\ srTuple' = tuple
            /\ srChain' = chain
            /\ srErrs' = errs
            /\ srResult' = verifyStorageRead(tuple, chain, errs)

\* The caller has looked at the result; nothing of the call is kept.
SR_Returned ==
    /\ srResult # "none"
    /\ srTuple' = [Address |-> ReadAddr, Slots |-> {}]
    /\ srChain' = [exists |-> {}, nonDefault |-> {}]
    /\ srErrs' = [header |-> FALSE, accounts |-> {}, slots |-> {}]
    /\ srResult' = "none"

(***************************************************************************)
(* Specifications.                                                         *)
(***************************************************************************)

\* The variables of the other components, per component.
exceptVerifier == <<filterVars, sparseVars, dispatchVars, nodeVars, txProviderVars, memDbVars, headerStoreVars, subscriptionVars, revertingVars, tracingVars, callerVars, eventMonitorVars, cancelVars, tracerVars, completenessVars, uninitVars, storageReadVars>>
exceptFilter == <<verifierVars, sparseVars, dispatchVars, nodeVars, txProviderVars, memDbVars, headerStoreVars, subscriptionVars, revertingVars, tracingVars, callerVars, eventMonitorVars, cancelVars, tracerVars, completenessVars, uninitVars, storageReadVars>>
exceptSparse == <<verifierVars, filterVars, dispatchVars, nodeVars, txProviderVars, memDbVars, headerStoreVars, subscriptionVars, revertingVars, tracingVars, callerVars, eventMonitorVars, cancelVars, tracerVars, completenessVars, uninitVars, storageReadVars>>

NextVerifier ==
    \/ CallVerifyLogs /\ UNCHANGED exceptVerifier
    \/ VerifyLogsReturned /\ UNCHANGED exceptVerifier

InitSpecVerifier == InitVerifier /\ InitFilterIdle /\ InitSparse /\ InitDispatch /\ InitNode /\ InitTxProvider /\ InitMemDb /\ InitHeaderStore /\ InitSubscriptions /\ InitReverting /\ InitTracing /\ InitCallers /\ InitEventMonitor /\ InitCancel /\ InitTracer /\ InitCompleteness /\ InitUninitIdle /\ InitStorageRead

SpecVerifier == InitSpecVerifier /\ [][NextVerifier]_vars

NextFilter ==
    \/ CallFilterTxs /\ UNCHANGED exceptFilter
    \/ CallFilterTxsFails /\ UNCHANGED exceptFilter

InitSpecFilter == InitVerifier /\ InitFilter /\ InitSparse /\ InitDispatch /\ InitNode /\ InitTxProvider /\ InitMemDb /\ InitHeaderStore /\ InitSubscriptions /\ InitReverting /\ InitTracing /\ InitCallers /\ InitEventMonitor /\ InitCancel /\ InitTracer /\ InitCompleteness /\ InitUninitIdle /\ InitStorageRead

SpecFilter == InitSpecFilter /\ [][NextFilter]_vars

NextSparse ==
    \/ PB_Start /\ UNCHANGED exceptSparse
    \/ PB_GetTxs /\ UNCHANGED exceptSparse
    \/ PB_FilterTxs /\ UNCHANGED exceptSparse
    \/ PB_LoadState /\ UNCHANGED exceptSparse
    \/ PB_ExecuteTxs /\ UNCHANGED exceptSparse
    \/ PB_VerifyUninitializedReads /\ UNCHANGED exceptSparse
    \/ PB_Merge /\ UNCHANGED exceptSparse
    \/ PB_VerifyCompleteness /\ UNCHANGED exceptSparse
    \/ PB_Commit /\ UNCHANGED exceptSparse
    \/ PB_WithRoot /\ UNCHANGED exceptSparse
    \/ PB_Returned /\ UNCHANGED exceptSparse

InitSpecSparse == InitVerifier /\ InitFilterIdle /\ InitSparse /\ InitDispatch /\ InitNode /\ InitTxProvider /\ InitMemDb /\ InitHeaderStore /\ InitSubscriptions /\ InitReverting /\ InitTracing /\ InitCallers /\ InitEventMonitor /\ InitCancel /\ InitTracer /\ InitCompleteness /\ InitUninitIdle /\ InitStorageRead

SpecSparse == InitSpecSparse /\ [][NextSparse]_vars

otherVars == <<verifierVars, filterVars, sparseVars, nodeVars, txProviderVars, memDbVars, headerStoreVars, subscriptionVars, revertingVars, tracingVars, callerVars, eventMonitorVars, cancelVars, tracerVars, completenessVars, uninitVars, storageReadVars>>

\* The steps of a Broadcast call that has been made.
BroadcastSteps ==
    \/ B_Lock /\ UNCHANGED otherVars
    \/ \E id \in Ids : B_Send(id) /\ UNCHANGED otherVars
    \/ B_Return /\ UNCHANGED otherVars

NextDispatch ==
    \/ \E id \in Ids : Unsubscribe(id) /\ UNCHANGED otherVars
    \/ Close /\ UNCHANGED otherVars
    \/ Cancel /\ UNCHANGED otherVars
    \/ B_Call /\ UNCHANGED otherVars
    \/ BroadcastSteps
    \/ L_Stop /\ UNCHANGED otherVars
    \/ \E m \in Ids : M_New(m) /\ UNCHANGED otherVars
    \/ \E m \in Ids : M_Receive(m) /\ UNCHANGED otherVars
    \/ \E m \in Ids : M_ProcessBlock(m) /\ UNCHANGED otherVars
    \/ \E m \in Ids : M_Stop(m) /\ UNCHANGED otherVars

InitSpecDispatch == InitVerifier /\ InitFilterIdle /\ InitSparse /\ InitDispatch /\ InitNode /\ InitTxProvider /\ InitMemDb /\ InitHeaderStore /\ InitSubscriptions /\ InitReverting /\ InitTracing /\ InitCallers /\ InitEventMonitor /\ InitCancel /\ InitTracer /\ InitCompleteness /\ InitUninitIdle /\ InitStorageRead

SpecDispatch == InitSpecDispatch /\ [][NextDispatch]_vars

\* The goroutine that called Broadcast keeps being scheduled; nothing is
\* assumed of the monitors.
SpecDispatchFair == SpecDispatch /\ WF_vars(BroadcastSteps)

\* The steps of the goroutine of monitor m, once it runs.
MonitorSteps(m) ==
    \/ M_Receive(m) /\ UNCHANGED otherVars
    \/ M_ProcessBlock(m) /\ UNCHANGED otherVars
    \/ M_Stop(m) /\ UNCHANGED otherVars

\* The goroutine of every monitor keeps being scheduled.
SpecDispatchMonitorFair == SpecDispatch /\ \A m \in Ids : WF_vars(MonitorSteps(m))

exceptNode == <<verifierVars, filterVars, sparseVars, dispatchVars, txProviderVars, memDbVars, headerStoreVars, subscriptionVars, revertingVars, tracingVars, callerVars, eventMonitorVars, cancelVars, tracerVars, completenessVars, uninitVars, storageReadVars>>

\* The steps of the sync client task.
SyncClientSteps ==
    \/ SC_FetchLatest /\ UNCHANGED exceptNode
    \/ SC_Genesis /\ UNCHANGED exceptNode
    \/ SC_SyncUp /\ UNCHANGED exceptNode
    \/ SC_Put /\ UNCHANGED exceptNode
    \/ SC_Send /\ UNCHANGED exceptNode
    \/ SC_Subscribe /\ UNCHANGED exceptNode
    \/ SC_Follow /\ UNCHANGED exceptNode

\* The steps of the block listener task.
NodeListenerSteps ==
    \/ NL_Receive /\ UNCHANGED exceptNode
    \/ NL_Broadcast /\ UNCHANGED exceptNode
    \/ NL_Stop /\ UNCHANGED exceptNode

\* The steps of the monitor task.
NodeMonitorSteps == NM_Stop /\ UNCHANGED exceptNode

NextNode ==
    \/ SyncClientSteps
    \/ NodeListenerSteps
    \/ NodeMonitorSteps
    \/ N_Cancel /\ UNCHANGED exceptNode

InitSpecNode == InitVerifier /\ InitFilterIdle /\ InitSparse /\ InitDispatch /\ InitNode /\ InitTxProvider /\ InitMemDb /\ InitHeaderStore /\ InitSubscriptions /\ InitReverting /\ InitTracing /\ InitCallers /\ InitEventMonitor /\ InitCancel /\ InitTracer /\ InitCompleteness /\ InitUninitIdle /\ InitStorageRead

SpecNode == InitSpecNode /\ [][NextNode]_vars

\* Every task of the group keeps being scheduled.
SpecNodeFair ==
    /\ SpecNode
    /\ WF_vars(SyncClientSteps)
    /\ WF_vars(NodeListenerSteps)
    /\ WF_vars(NodeMonitorSteps)

exceptTxProvider == <<verifierVars, filterVars, sparseVars, dispatchVars, nodeVars, memDbVars, headerStoreVars, subscriptionVars, revertingVars, tracingVars, callerVars, eventMonitorVars, cancelVars, tracerVars, completenessVars, uninitVars, storageReadVars>>

NextTxProvider ==
    \/ CallGetTxsAtBlock /\ UNCHANGED exceptTxProvider
    \/ GetTxsAtBlockReturned /\ UNCHANGED exceptTxProvider

InitSpecTxProvider == InitVerifier /\ InitFilterIdle /\ InitSparse /\ InitDispatch /\ InitNode /\ InitTxProvider /\ InitMemDb /\ InitHeaderStore /\ InitSubscriptions /\ InitReverting /\ InitTracing /\ InitCallers /\ InitEventMonitor /\ InitCancel /\ InitTracer /\ InitCompleteness /\ InitUninitIdle /\ InitStorageRead

SpecTxProvider == InitSpecTxProvider /\ [][NextTxProvider]_vars

exceptMemDb == <<verifierVars, filterVars, sparseVars, dispatchVars, nodeVars, txProviderVars, headerStoreVars, subscriptionVars, revertingVars, tracingVars, callerVars, eventMonitorVars, cancelVars, tracerVars, completenessVars, uninitVars, storageReadVars>>

NextMemDb ==
    \/ KV_Close /\ UNCHANGED exceptMemDb
    \/ KV_Has /\ UNCHANGED exceptMemDb
    \/ KV_Get /\ UNCHANGED exceptMemDb
    \/ KV_Put /\ UNCHANGED exceptMemDb
    \/ KV_Delete /\ UNCHANGED exceptMemDb
    \/ KV_Stat /\ UNCHANGED exceptMemDb
    \/ KV_SyncKeyValue /\ UNCHANGED exceptMemDb
    \/ KV_DeleteRange /\ UNCHANGED exceptMemDb
    \/ KV_BatchWrite /\ UNCHANGED exceptMemDb
    \/ KV_NewIterator /\ UNCHANGED exceptMemDb
    \/ KV_Compact /\ UNCHANGED exceptMemDb

InitSpecMemDb == InitVerifier /\ InitFilterIdle /\ InitSparse /\ InitDispatch /\ InitNode /\ InitTxProvider /\ InitMemDb /\ InitHeaderStore /\ InitSubscriptions /\ InitReverting /\ InitTracing /\ InitCallers /\ InitEventMonitor /\ InitCancel /\ InitTracer /\ InitCompleteness /\ InitUninitIdle /\ InitStorageRead

SpecMemDb == InitSpecMemDb /\ [][NextMemDb]_vars

exceptHeaderStore == <<verifierVars, filterVars, sparseVars, dispatchVars, nodeVars, txProviderVars, kvRes, subscriptionVars, revertingVars, tracingVars, callerVars, eventMonitorVars, cancelVars, tracerVars, completenessVars, uninitVars, storageReadVars>>

NextHeaderStore ==
    \/ W_Call /\ UNCHANGED exceptHeaderStore
    \/ W_Lock /\ UNCHANGED exceptHeaderStore
    \/ W_Write /\ UNCHANGED exceptHeaderStore
    \/ R_CallByNumber /\ UNCHANGED exceptHeaderStore
    \/ R_GetNumber /\ UNCHANGED exceptHeaderStore
    \/ R_RLock /\ UNCHANGED exceptHeaderStore
    \/ R_CallByHash /\ UNCHANGED exceptHeaderStore
    \/ R_GetHash /\ UNCHANGED exceptHeaderStore
    \/ HS_Close /\ UNCHANGED exceptHeaderStore

InitSpecHeaderStore == InitVerifier /\ InitFilterIdle /\ InitSparse /\ InitDispatch /\ InitNode /\ InitTxProvider /\ InitMemDb /\ InitHeaderStore /\ InitSubscriptions /\ InitReverting /\ InitTracing /\ InitCallers /\ InitEventMonitor /\ InitCancel /\ InitTracer /\ InitCompleteness /\ InitUninitIdle /\ InitStorageRead

SpecHeaderStore == InitSpecHeaderStore /\ [][NextHeaderStore]_vars

exceptSubscriptions == <<verifierVars, filterVars, sparseVars, dispatchVars, nodeVars, txProviderVars, memDbVars, headerStoreVars, revertingVars, tracingVars, callerVars, eventMonitorVars, cancelVars, tracerVars, completenessVars, uninitVars, storageReadVars>>

NextSubscriptions ==
    \/ \E id \in SubIds : D_Subscribe(id) /\ UNCHANGED exceptSubscriptions
    \/ \E id \in SubIds : D_Unsubscribe(id) /\ UNCHANGED exceptSubscriptions
    \/ D_Close /\ UNCHANGED exceptSubscriptions

InitSpecSubscriptions == InitVerifier /\ InitFilterIdle /\ InitSparse /\ InitDispatch /\ InitNode /\ InitTxProvider /\ InitMemDb /\ InitHeaderStore /\ InitSubscriptions /\ InitReverting /\ InitTracing /\ InitCallers /\ InitEventMonitor /\ InitCancel /\ InitTracer /\ InitCompleteness /\ InitUninitIdle /\ InitStorageRead

SpecSubscriptions == InitSpecSubscriptions /\ [][NextSubscriptions]_vars

exceptReverting == <<verifierVars, filterVars, sparseVars, dispatchVars, nodeVars, txProviderVars, memDbVars, headerStoreVars, subscriptionVars, tracingVars, callerVars, eventMonitorVars, cancelVars, tracerVars, completenessVars, uninitVars, storageReadVars>>

NextReverting ==
    \/ RV_SetNonce /\ UNCHANGED exceptReverting
    \/ RV_SetBalance /\ UNCHANGED exceptReverting
    \/ RV_SetCode /\ UNCHANGED exceptReverting
    \/ RV_SetState /\ UNCHANGED exceptReverting
    \/ RV_Commit /\ UNCHANGED exceptReverting
    \/ RV_Revert /\ UNCHANGED exceptReverting

InitSpecReverting == InitVerifier /\ InitFilterIdle /\ InitSparse /\ InitDispatch /\ InitNode /\ InitTxProvider /\ InitMemDb /\ InitHeaderStore /\ InitSubscriptions /\ InitReverting /\ InitTracing /\ InitCallers /\ InitEventMonitor /\ InitCancel /\ InitTracer /\ InitCompleteness /\ InitUninitIdle /\ InitStorageRead

SpecReverting == InitSpecReverting /\ [][NextReverting]_vars

exceptTracing == <<verifierVars, filterVars, sparseVars, dispatchVars, nodeVars, txProviderVars, memDbVars, headerStoreVars, subscriptionVars, revertingVars, callerVars, eventMonitorVars, cancelVars, tracerVars, completenessVars, uninitVars, storageReadVars>>

NextTracing ==
    \/ TS_LoadState /\ UNCHANGED exceptTracing
    \/ TS_LoadStateFails /\ UNCHANGED exceptTracing
    \/ TS_Execute /\ UNCHANGED exceptTracing
    \/ TS_GetAccount /\ UNCHANGED exceptTracing
    \/ TS_AddBalance /\ UNCHANGED exceptTracing
    \/ TS_GetState /\ UNCHANGED exceptTracing
    \/ TS_CreateAccount /\ UNCHANGED exceptTracing
    \/ TS_SetAccount /\ UNCHANGED exceptTracing
    \/ TS_SetState /\ UNCHANGED exceptTracing
    \/ TS_Commit /\ UNCHANGED exceptTracing
    \/ TS_New /\ UNCHANGED exceptTracing
    \/ TS_NewWithEmptyTraces /\ UNCHANGED exceptTracing

InitSpecTracing == InitVerifier /\ InitFilterIdle /\ InitSparse /\ InitDispatch /\ InitNode /\ InitTxProvider /\ InitMemDb /\ InitHeaderStore /\ InitSubscriptions /\ InitReverting /\ InitTracing /\ InitCallers /\ InitEventMonitor /\ InitCancel /\ InitTracer /\ InitCompleteness /\ InitUninitIdle /\ InitStorageRead

SpecTracing == InitSpecTracing /\ [][NextTracing]_vars

exceptCallers == <<verifierVars, filterVars, sparseVars, dispatchVars, nodeVars, txProviderVars, memDbVars, headerStoreVars, revertingVars, tracingVars, eventMonitorVars, cancelVars, tracerVars, completenessVars, uninitVars, storageReadVars>>

NextCallers ==
    \/ \E c \in Callers : CD_Call(c) /\ UNCHANGED exceptCallers
    \/ \E c \in Callers : CD_Lock(c) /\ UNCHANGED exceptCallers
    \/ \E c \in Callers : CD_Subscribe(c) /\ UNCHANGED exceptCallers
    \/ \E c \in Callers : CD_Unsubscribe(c) /\ UNCHANGED exceptCallers
    \/ \E c \in Callers : CD_Close(c) /\ UNCHANGED exceptCallers
    \/ \E c \in Callers : CD_Send(c) /\ UNCHANGED exceptCallers
    \/ \E c \in Callers : CD_Return(c) /\ UNCHANGED exceptCallers

InitSpecCallers == InitVerifier /\ InitFilterIdle /\ InitSparse /\ InitDispatch /\ InitNode /\ InitTxProvider /\ InitMemDb /\ InitHeaderStore /\ InitSubscriptions /\ InitReverting /\ InitTracing /\ InitCallers /\ InitEventMonitor /\ InitCancel /\ InitTracer /\ InitCompleteness /\ InitUninitIdle /\ InitStorageRead

SpecCallers == InitSpecCallers /\ [][NextCallers]_vars

exceptEventMonitor == <<verifierVars, filterVars, sparseVars, dispatchVars, nodeVars, txProviderVars, memDbVars, headerStoreVars, revertingVars, tracingVars, subscriptionVars, callerVars, cancelVars, tracerVars, completenessVars, uninitVars, storageReadVars>>

NextEventMonitor ==
    \/ EM_NewBlock /\ UNCHANGED exceptEventMonitor
    \/ EM_Drop /\ UNCHANGED exceptEventMonitor
    \/ EM_ProcessBlock /\ UNCHANGED exceptEventMonitor

InitSpecEventMonitor == InitVerifier /\ InitFilterIdle /\ InitSparse /\ InitDispatch /\ InitNode /\ InitTxProvider /\ InitMemDb /\ InitHeaderStore /\ InitSubscriptions /\ InitReverting /\ InitTracing /\ InitCallers /\ InitEventMonitor /\ InitCancel /\ InitTracer /\ InitCompleteness /\ InitUninitIdle /\ InitStorageRead

SpecEventMonitor == InitSpecEventMonitor /\ [][NextEventMonitor]_vars

exceptSparseCancel == <<verifierVars, filterVars, dispatchVars, nodeVars, txProviderVars, memDbVars, headerStoreVars, subscriptionVars, revertingVars, tracingVars, callerVars, eventMonitorVars, tracerVars, completenessVars, uninitVars, storageReadVars>>

NextSparseCancel ==
    \/ PB_Cancel /\ UNCHANGED exceptSparseCancel
    \/ PBC_Start /\ UNCHANGED exceptSparseCancel
    \/ withCtx(PB_GetTxs) /\ UNCHANGED exceptSparseCancel
    \/ withCtx(PB_FilterTxs) /\ UNCHANGED exceptSparseCancel
    \/ withCtx(PB_LoadState) /\ UNCHANGED exceptSparseCancel
    \/ withoutCtx(PB_ExecuteTxs) /\ UNCHANGED exceptSparseCancel
    \/ withCtx(PB_VerifyUninitializedReads) /\ UNCHANGED exceptSparseCancel
    \/ withoutCtx(PB_Merge) /\ UNCHANGED exceptSparseCancel
    \/ withCtx(PB_VerifyCompleteness) /\ UNCHANGED exceptSparseCancel
    \/ withoutCtx(PB_Commit) /\ UNCHANGED exceptSparseCancel
    \/ withoutCtx(PB_WithRoot) /\ UNCHANGED exceptSparseCancel
    \/ withoutCtx(PB_Returned) /\ UNCHANGED exceptSparseCancel

InitSpecSparseCancel == InitVerifier /\ InitFilterIdle /\ InitSparse /\ InitDispatch /\ InitNode /\ InitTxProvider /\ InitMemDb /\ InitHeaderStore /\ InitSubscriptions /\ InitReverting /\ InitTracing /\ InitCallers /\ InitEventMonitor /\ InitCancel /\ InitTracer /\ InitCompleteness /\ InitUninitIdle /\ InitStorageRead

SpecSparseCancel == InitSpecSparseCancel /\ [][NextSparseCancel]_vars

exceptTracer == <<sparseVars, verifierVars, filterVars, dispatchVars, nodeVars, txProviderVars, memDbVars, headerStoreVars, subscriptionVars, revertingVars, tracingVars, callerVars, eventMonitorVars, cancelVars, completenessVars, uninitVars, storageReadVars>>

NextTracer ==
    \/ TR_OnReadAccount /\ UNCHANGED exceptTracer
    \/ TR_OnWriteAccount /\ UNCHANGED exceptTracer
    \/ TR_OnReadStorage /\ UNCHANGED exceptTracer
    \/ TR_OnWriteStorage /\ UNCHANGED exceptTracer

InitSpecTracer == InitVerifier /\ InitFilterIdle /\ InitSparse /\ InitDispatch /\ InitNode /\ InitTxProvider /\ InitMemDb /\ InitHeaderStore /\ InitSubscriptions /\ InitReverting /\ InitTracing /\ InitCallers /\ InitEventMonitor /\ InitCancel /\ InitTracer /\ InitCompleteness /\ InitUninitIdle /\ InitStorageRead

SpecTracer == InitSpecTracer /\ [][NextTracer]_vars

exceptCompleteness == <<sparseVars, verifierVars, filterVars, dispatchVars, nodeVars, txProviderVars, memDbVars, headerStoreVars, subscriptionVars, revertingVars, tracingVars, callerVars, eventMonitorVars, cancelVars, tracerVars, uninitVars, storageReadVars>>

NextCompleteness ==
    \/ VC_Call /\ UNCHANGED exceptCompleteness
    \/ VC_Returned /\ UNCHANGED exceptCompleteness

InitSpecCompleteness == InitVerifier /\ InitFilterIdle /\ InitSparse /\ InitDispatch /\ InitNode /\ InitTxProvider /\ InitMemDb /\ InitHeaderStore /\ InitSubscriptions /\ InitReverting /\ InitTracing /\ InitCallers /\ InitEventMonitor /\ InitCancel /\ InitTracer /\ InitCompleteness /\ InitUninitIdle /\ InitStorageRead

SpecCompleteness == InitSpecCompleteness /\ [][NextCompleteness]_vars

exceptUninit == <<sparseVars, verifierVars, filterVars, dispatchVars, nodeVars, txProviderVars, memDbVars, headerStoreVars, subscriptionVars, revertingVars, tracingVars, callerVars, eventMonitorVars, cancelVars, tracerVars, completenessVars, storageReadVars>>

NextUninit ==
    \/ UR_Verify /\ UNCHANGED exceptUninit
    \/ UR_Merge /\ UNCHANGED exceptUninit

InitSpecUninit == InitVerifier /\ InitFilterIdle /\ InitSparse /\ InitDispatch /\ InitNode /\ InitTxProvider /\ InitMemDb /\ InitHeaderStore /\ InitSubscriptions /\ InitReverting /\ InitTracing /\ InitCallers /\ InitEventMonitor /\ InitCancel /\ InitTracer /\ InitCompleteness /\ InitUninit /\ InitStorageRead

SpecUninit == InitSpecUninit /\ [][NextUninit]_vars

exceptStorageRead == <<verifierVars, filterVars, sparseVars, dispatchVars, nodeVars, txProviderVars, memDbVars, headerStoreVars, subscriptionVars, revertingVars, tracingVars, callerVars, eventMonitorVars, cancelVars, tracerVars, completenessVars, uninitVars>>

NextStorageRead ==
    \/ SR_Call /\ UNCHANGED exceptStorageRead
    \/ SR_Returned /\ UNCHANGED exceptStorageRead

InitSpecStorageRead == InitVerifier /\ InitFilterIdle /\ InitSparse /\ InitDispatch /\ InitNode /\ InitTxProvider /\ InitMemDb /\ InitHeaderStore /\ InitSubscriptions /\ InitReverting /\ InitTracing /\ InitCallers /\ InitEventMonitor /\ InitCancel /\ InitTracer /\ InitCompleteness /\ InitUninitIdle /\ InitStorageRead

SpecStorageRead == InitSpecStorageRead /\ [][NextStorageRead]_vars

(***************************************************************************)
(* C3, C4: the log chain.                                                  *)
(***************************************************************************)

\* The hash-chain step a compatible contract performs for one event: the
\* prior head followed by the event's fields in declared order, the indexed
\* ones taken from the topics after the signature, the others from the data.
WellFormedLog(log) ==
    /\ log.topics # <<>>
    /\ log.topics[1] \in KnownEvents
    /\ LET inputs == EventABI[log.topics[1]]
       IN  /\ Len(log.topics) - 1 = Cardinality({k \in DOMAIN inputs : inputs[k]})
           /\ Len(log.data) >= Cardinality({k \in DOMAIN inputs : ~inputs[k]})

FieldsInOrder(log) ==
    LET inputs == EventABI[log.topics[1]]
        rank(k, flag) == Cardinality({j \in 1 .. k : inputs[j] = flag})
    IN  [k \in DOMAIN inputs |->
            IF inputs[k] THEN log.topics[1 + rank(k, TRUE)] ELSE log.data[rank(k, FALSE)]]

KeccakPack(prev, log) == Keccak256Hash(0, <<prev>> \o FieldsInOrder(log))

RECURSIVE FoldHeads(_, _)
\* fold(keccak_pack, current, logs), taken from the last log backwards.
FoldHeads(current, logs) ==
    IF logs = <<>> THEN current
    ELSE KeccakPack(FoldHeads(current, SubSeq(logs, 1, Len(logs) - 1)), logs[Len(logs)])

AllWellFormed(logs) == \A i \in DOMAIN logs : WellFormedLog(logs[i])

C4_HeadUnchangedOnFailure == vResult = "err" => vHead = vPrev

\* C4 witness: a call failed although its first log could be folded and
\* moved the running head away from the stored one.
C4_Witness ==
    /\ vResult = "err"
    /\ Len(vLogs) >= 1
    /\ WellFormedLog(vLogs[1])
    /\ KeccakPack(vPrev, vLogs[1]) # vPrev

(***************************************************************************)
(* C5: filter completeness.                                                *)
(***************************************************************************)

\* A transaction touches a set of accounts: as sender, as recipient, or by
\* naming one of them in its access list (trace).
Touches(tx, accs) ==
    \/ tx.Sender \in accs
    \/ tx.To \in accs
    \/ tx.Trace \cap accs # {}

\* The accounts an admitted transaction brings into the tracked set.
Brought(tx, coinbase) ==
    {tx.Sender} \cup ({tx.To} \ {NoAddr}) \cup (tx.Trace \ {coinbase})

Admitted == {fResult.txs[k] : k \in DOMAIN fResult.txs}

\* The monitored accounts and those brought in by the admitted
\* transactions that come after position i in the block.
TrackedAfter(i) ==
    MonitoredAccs \cup
        UNION {Brought(fTxs[j], fCoinbase) : j \in {a \in Admitted : a > i}}

\* C5: a transaction of the block that touches a monitored account, or an
\* account brought into the tracked set by an admitted later transaction,
\* is in the list FilterTxs returns.
C5_FilterCompleteness ==
    (fResult.done /\ ~fResult.err) =>
        \A i \in DOMAIN fTxs : Touches(fTxs[i], TrackedAfter(i)) => i \in Admitted

\* C5 witness: a transaction that touches no monitored account and creates
\* no contract was admitted because of a later admitted transaction.
C5_Witness ==
    /\ fResult.done
    /\ ~fResult.err
    /\ \E i \in Admitted :
          /\ fTxs[i].To # NoAddr
          /\ ~Touches(fTxs[i], MonitoredAccs)
          /\ Touches(fTxs[i], TrackedAfter(i))

(***************************************************************************)
(* C1, C2: the sparse TxProcessor.                                         *)
(***************************************************************************)

\* What the persistent state holds: for every account its nonce, balance
\* and code and the value of every slot, as its getters return them.
Contents(acc, storage) ==
    [a \in SAddrs |->
        [nonce |-> acc[a].nonce, balance |-> acc[a].balance,
         code |-> acc[a].code, storage |-> storage[a]]]

\* C1: when ProcessBlock returns an error, at whichever step, the
\* persistent sparse state holds what it held before the call.
C1_AtomicRejection ==
    (sPc = "returned" /\ sResult = "err") =>
        Contents(sDb.acc, sDb.storage) = Contents(sPre.acc, sPre.storage)

\* C2: when ProcessBlock returns success, VerifyUninitializedReads passed
\* on the transient state and VerifyCompleteness passed for every
\* monitored account.
C2_BothChecksOnSuccess ==
    (sPc = "returned" /\ sResult = "ok") =>
        (sChecks.uninit /\ sChecks.complete = MonitoredAccs)

(***************************************************************************)
(* C6 to C10: the dispatcher and the monitor loop.                         *)
(***************************************************************************)

InSeq(x, s) == \E i \in 1..Len(s) : s[i] = x

RECURSIVE IsSubseq(_, _)
\* s can be had from t by leaving elements out.
IsSubseq(s, t) ==
    IF s = <<>> THEN TRUE
    ELSE IF t = <<>> THEN FALSE
    ELSE IF Head(s) = Head(t) THEN IsSubseq(Tail(s), Tail(t))
    ELSE IsSubseq(s, Tail(t))

\* C6: a Broadcast call that was made returns, after at most one step for
\* the lock and one per subscriber before the step that returns, whatever
\* the buffers hold and whether or not any monitor ever takes a step.
C6_BroadcastReturns ==
    /\ [](bSteps <= Cardinality(Ids) + 1)
    /\ (bPc \in {"lock", "loop"}) ~> (bPc = "select")

\* C6 witness: a Broadcast call has returned although the buffer of a
\* subscriber that has received nothing was full before the call.
C6_Witness ==
    /\ bPc = "select"
    /\ Len(bLog) > SubBufCap
    /\ \E id \in dSubs : mRecv[id] = <<>> /\ chanFull(chans[id])

\* The header of the call in progress reached the channel of id.
Delivered(id) == InSeq(bHead, chans[id].buf) \/ InSeq(bHead, mRecv[id])

\* One turn of the loop: some id leaves bTodo; its channel gets the header
\* at its end if it had room, and is left as it was, the id joining
\* bDropped, if it was full; no other channel changes.
SendTurn ==
    \E id \in bTodo :
        /\ bTodo' = bTodo \ {id}
        /\ IF Len(chans[id].buf) < SubBufCap
           THEN /\ chans' = [chans EXCEPT ![id].buf = Append(@, bHead)]
                /\ bDropped' = bDropped
           ELSE /\ chans' = chans
                /\ bDropped' = bDropped \cup {id}

\* C7: Broadcast visits every subscribed id; at each visit the header is
\* delivered when the buffer of that id has room and dropped, for that id
\* alone, when it is full.
C7_DeliverOrDropPerSubscriber ==
    /\ [](bPc = "loop" =>
            /\ bTodo \cup bDropped \subseteq dSubs
            /\ \A id \in dSubs \ bTodo : (id \in bDropped) <=> ~Delivered(id))
    /\ [][/\ (bPc = "lock" /\ bPc' = "loop") => bTodo' = dSubs
          /\ (bPc = "loop" /\ bPc' = "loop" /\ bSteps' # bSteps) => SendTurn
          /\ (bPc = "loop" /\ bPc' # "loop") => bTodo = {}]_vars

\* C7 witness: in one call the header was dropped for one subscriber and
\* delivered to another.
C7_Witness ==
    /\ bPc = "loop"
    /\ bTodo = {}
    /\ \E a, b \in dSubs : a \in bDropped /\ b \notin bDropped /\ Delivered(b)

\* C8: what a monitor has received is a subsequence of what was passed to
\* Broadcast.
C8_ReceivedIsSubsequence == \A m \in Ids : IsSubseq(mRecv[m], bLog)

\* C8 witness: a monitor has received two headers and missed one.
C8_Witness ==
    \E m \in Ids : Len(mRecv[m]) >= 2 /\ Len(mRecv[m]) < Len(bLog)

\* C9: a monitor has at most one processBlock call that has not returned,
\* and when it pulls a header every earlier call has returned and its
\* error, if any, is logged.
C9_NoOverlap ==
    /\ [](\A m \in Ids : Len(mRecv[m]) - mDone[m] \in {0, 1})
    /\ [][\A m \in Ids :
            Len(mRecv'[m]) > Len(mRecv[m]) =>
                /\ mDone[m] = Len(mRecv[m])
                /\ mRes[m] = "err" => mLog[m] = "warn"]_vars

\* C9 witness: a monitor is processing its second header.
C9_Witness ==
    \E m \in Ids : Len(mRecv[m]) = 2 /\ mDone[m] = 1 /\ mPc[m] = "processing"

\* C10: when processBlock returns an error the monitor logs a warning and
\* is back in its select; a monitor returns only on cancellation and fails
\* only on a nil header.
C10_ErrorIsWarnedAndLoopGoesOn ==
    /\ [](\A m \in Ids :
            /\ mPc[m] = "stopped" => cancelled
            /\ mPc[m] = "panicked" => mHead[m] = NilHeader)
    /\ [][\A m \in Ids :
            (mPc[m] = "processing" /\ mDone'[m] # mDone[m] /\ mRes'[m] = "err") =>
                (mPc'[m] = "select" /\ mLog'[m] = "warn")]_vars

\* C10 witness: a monitor is processing a header after it logged the
\* warning for the one before.
C10_Witness ==
    \E m \in Ids :
        /\ mRes[m] = "err"
        /\ mLog[m] = "warn"
        /\ mPc[m] = "processing"
        /\ mHead[m] # NilHeader

(***************************************************************************)
(* C11, C13: the tasks of Node.Start.                                      *)
(***************************************************************************)

\* C11: once the context of the group is cancelled, by a signal or by a
\* task that returned an error, the sync client, the listener and the
\* monitor all return.
C11_GroupReturns ==
    nCancelled ~> (cPc = "returned" /\ lPc = "returned" /\ nmPc = "returned")

\* C13: a header the sync client puts on its channel is in the header
\* store at that moment.
C13_StoredBeforePublished ==
    [][Len(pipe'.buf) > Len(pipe.buf) =>
        pipe'.buf[Len(pipe'.buf)] \in hStore]_vars

(***************************************************************************)
(* C12: the monitor and cancellation.                                      *)
(***************************************************************************)

\* C12: a monitor that runs when the context is cancelled returns.
C12_MonitorReturnsOnCancel ==
    \A m \in Ids :
        (cancelled /\ mPc[m] \in {"select", "processing"}) ~> (mPc[m] = "stopped")

(***************************************************************************)
(* C14: getTxsAtBlock.                                                     *)
(***************************************************************************)

\* C14: a successful getTxsAtBlock returns the transactions of the block
\* in block order, the i-th paired with index i - 1, and the root of the
\* returned transactions is the root of the header; when the root of the
\* answer differs, or the RPC fails, it returns an error and no list.
C14_TxsMatchHeaderRoot ==
    tpResult.done =>
        /\ ~tpResult.err =>
            /\ Len(tpResult.list) = Len(tpBlock)
            /\ \A i \in 1..Len(tpBlock) :
                tpResult.list[i] = [Tx |-> tpBlock[i], Index |-> i - 1]
            /\ DeriveSha([i \in 1..Len(tpResult.list) |-> tpResult.list[i].Tx]) = DeriveSha(tpBlock)
        /\ (tpRpc.err \/ DeriveSha(tpRpc.txs) # DeriveSha(tpBlock)) =>
            (tpResult.err /\ tpResult.list = <<>>)
        /\ tpResult.err => (tpRpc.err \/ tpRpc.txs # tpBlock)

\* C14 witness: a call for a block of two different transactions succeeded.
C14_Witness ==
    /\ tpResult.done
    /\ ~tpResult.err
    /\ Len(tpBlock) = 2
    /\ tpBlock[1] # tpBlock[2]

(***************************************************************************)
(* C15: the head of the verifier between calls.                            *)
(***************************************************************************)

\* C15: after a successful VerifyLogs the head of the verifier is the
\* expected head of that call; the head is kept until the next call, and
\* the next call folds its logs starting from it.
C15_HeadAdvancesToExpected ==
    /\ [](vResult = "ok" => vHead = vExpected)
    /\ [][(vResult = "ok" /\ vResult' = "none") => vHead' = vExpected]_vars
    /\ [][(vResult = "none" /\ vResult' # "none") =>
            /\ vPrev' = vHead
            /\ (vResult' = "ok") <=>
                    (AllWellFormed(vLogs') /\ FoldHeads(vHead, vLogs') = vExpected')]_vars

\* C15 witness: a call that started from the head an earlier successful
\* call left has succeeded and moved the head again.
C15_Witness ==
    /\ vResult = "ok"
    /\ vPrev # 0
    /\ vLogs # <<>>
    /\ vHead = vExpected
    /\ vHead # vPrev

(***************************************************************************)
(* C18: the key-value store after Close.                                   *)
(***************************************************************************)

\* The operations C18 names.
C18_Ops == {"Has", "Get", "Put", "Delete", "DeleteRange", "BatchWrite", "NewIterator", "Compact"}

\* C18: an operation called on the store after Close fails with
\* ErrDbClosed, and the store stays closed and empty.
C18_ClosedStoreFails ==
    (kvRes.closed /\ kvRes.op \in C18_Ops) =>
        (kvRes.err = "ErrDbClosed" /\ kvDb = ClosedDatabase)

(***************************************************************************)
(* C17: the two entries of a header.                                       *)
(***************************************************************************)

\* The by-number entry of num is in the map.
HasNumberEntry(m, num) == headerNumberKey(num) \in DOMAIN m

\* The entries of h are both in the map.
HasBothEntries(m, h) ==
    /\ headerHashKey(HeaderHash(h)) \in DOMAIN m
    /\ m[headerHashKey(HeaderHash(h))] = rlpEncode(h)
    /\ HasNumberEntry(m, h.Number)

\* C17: in every state of the store a by-number entry points to a by-hash
\* entry of a header with that number, so GetByNumber never finds the
\* first without the second; the map changes only in the step of a Put
\* that succeeds, which writes both entries of its header, and a Put that
\* fails has written nothing.
C17_PutIsAtomic ==
    /\ [](\A n \in 1..MaxHeight :
            HasNumberEntry(kvDb.m, n) =>
                \E h \in StoredHeaders :
                    /\ h.Number = n
                    /\ kvDb.m[headerNumberKey(n)] = HeaderHash(h)
                    /\ HasBothEntries(kvDb.m, h))
    /\ [](rRes # "failed to get header by hash: ErrHeaderNotFound")
    /\ [][(kvDb'.m # kvDb.m /\ kvDb'.open) =>
            (wPc = "locked" /\ wRes' = "ok" /\ HasBothEntries(kvDb'.m, wHeader)
             /\ kvDb'.m[headerNumberKey(wHeader.Number)] = HeaderHash(wHeader))]_vars
    /\ [][(wPc = "locked" /\ wRes' = "err") => kvDb' = kvDb]_vars

\* C17 witness: GetByNumber has read the by-number entry of a number for
\* which two headers were put, and a Put of a header waits for the lock.
C17_Witness ==
    /\ rPc = "hash"
    /\ rNested
    /\ wPc = "lock"
    /\ \E h \in StoredHeaders :
        /\ h.Number = rNum
        /\ HeaderHash(h) # rHash
        /\ headerHashKey(HeaderHash(h)) \in DOMAIN kvDb.m

(***************************************************************************)
(* C16: Subscribe is idempotent.                                           *)
(***************************************************************************)

\* C16: the calls of Subscribe(id) made while the id stays subscribed all
\* return the channel the map holds for the id; the open channels the
\* dispatcher made are exactly the channels of the map, one for each id;
\* and two ids never have the same channel.
C16_SubscribeIdempotent ==
    /\ \A id \in SubIds :
        dsCalls[id] > 0 =>
            (dsFirst[id] = dsLast[id] /\ dsLast[id] = dsMap[id] /\ dsMap[id] # NoChan)
    /\ (1..(dsNext - 1)) \ dsClosed = {dsMap[id] : id \in {i \in SubIds : dsMap[i] # NoChan}}
    /\ \A a, b \in SubIds : (a # b /\ dsMap[a] # NoChan) => dsMap[a] # dsMap[b]

\* C16 witness: Subscribe was called twice for an id that had been
\* unsubscribed before, while another id is subscribed.
C16_Witness ==
    \E a, b \in SubIds :
        /\ a # b
        /\ dsCalls[a] = 2
        /\ dsMap[b] # NoChan
        /\ dsClosed # {}

(***************************************************************************)
(* C19: Revert after repeated writes.                                      *)
(***************************************************************************)

\* C19: right after Revert every nonce, balance, code and slot has the
\* value it had at the last commit, whatever was written since.
C19_RevertRestoresCommitted ==
    rvLast = "revert" =>
        \A a \in SAddrs :
            /\ rvDb.acc[a].nonce = rvBase.acc[a].nonce
            /\ rvDb.acc[a].balance = rvBase.acc[a].balance
            /\ rvDb.acc[a].code = rvBase.acc[a].code
            /\ \A k \in Slots : rvDb.storage[a][k] = rvBase.storage[a][k]

\* C19 witness: Revert ran over a journal with two writes to the same
\* field, the second of which replaced a value that was not the committed
\* one, and the committed state was not the empty one.
C19_Witness ==
    /\ rvLast = "revert"
    /\ rvBase # StateOf(EmptyDb)
    /\ \E i, j \in 1..Len(rvDb.journal) :
        /\ i < j
        /\ rvDb.journal[i].kind = rvDb.journal[j].kind
        /\ rvDb.journal[i].addr = rvDb.journal[j].addr
        /\ rvDb.journal[i].slot = rvDb.journal[j].slot
        /\ rvDb.journal[i].prev # rvDb.journal[j].prev

(***************************************************************************)
(* C20: the trace of the state LoadState returns.                          *)
(***************************************************************************)

\* The addresses LoadState is asked to load: the coinbase and the sender,
\* the recipient and the traced accounts of every transaction.
Requested(in) ==
    {in.coinbase}
        \cup {in.txs[i].Sender : i \in DOMAIN in.txs}
        \cup ({in.txs[i].To : i \in DOMAIN in.txs} \ {NoAddr})
        \cup UNION {{acc.Address : acc \in in.txs[i].Trace} : i \in DOMAIN in.txs}

\* The slots of addr in the traces of the transactions.
RequestedSlots(in, addr) ==
    UNION {UNION {acc.Slots : acc \in {t \in in.txs[i].Trace : t.Address = addr}} : i \in DOMAIN in.txs}

\* C20 as stated: the state LoadState returns has an empty trace.
C20_LoadedTraceEmpty == tsPhase = "loaded" => tsWorld.tracer = newTracer

\* C20 as amended: the state LoadState returns carries the trace of the
\* loading: the requested accounts that exist on the chain are recorded
\* as written, their traced slots as written slots, and no uninitialized
\* read is recorded; a read of the execution is recorded as uninitialized
\* exactly when the address, or the slot, is not recorded as written.
C20_LoadedTraceIsLoadTrace ==
    /\ [](tsPhase = "loaded" =>
            /\ tsWorld.tracer.accWrites = Requested(tsIn) \cap tsIn.chain
            /\ \A a \in SAddrs :
                tsWorld.tracer.storageWrites[a] =
                    IF a \in tsIn.chain THEN RequestedSlots(tsIn, a) ELSE {}
            /\ tsWorld.tracer.uninitializedAccReads = {}
            /\ \A a \in SAddrs : tsWorld.tracer.uninitializedStorageReads[a] = {})
    /\ [][(tsPhase = "exec" /\ tsOp'.op \in {"GetAccount", "AddBalance"}) =>
            tsWorld'.tracer.uninitializedAccReads =
                IF tsOp'.addr \in tsWorld.tracer.accWrites
                THEN tsWorld.tracer.uninitializedAccReads
                ELSE tsWorld.tracer.uninitializedAccReads \cup {tsOp'.addr}]_vars
    /\ [][(tsPhase = "exec" /\ tsOp'.op = "GetState") =>
            tsWorld'.tracer.uninitializedStorageReads[tsOp'.addr] =
                IF tsOp'.slot \in tsWorld.tracer.storageWrites[tsOp'.addr]
                THEN tsWorld.tracer.uninitializedStorageReads[tsOp'.addr]
                ELSE tsWorld.tracer.uninitializedStorageReads[tsOp'.addr] \cup {tsOp'.slot}]_vars

\* C20 witness: the execution has read an account LoadState created, which
\* is not recorded, and an account it did not create, which is.
C20_Witness ==
    /\ tsPhase = "exec"
    /\ tsOp.op = "GetAccount"
    /\ tsOp.addr \in tsWorld.tracer.accWrites
    /\ tsOp.addr \notin tsWorld.tracer.uninitializedAccReads
    /\ tsWorld.tracer.uninitializedAccReads # {}
    /\ \E a \in SAddrs : tsWorld.tracer.storageWrites[a] # {}

(***************************************************************************)
(* C21: no send on a closed channel, no channel closed twice.              *)
(***************************************************************************)

\* C21: whatever the interleaving of the callers of Broadcast, Subscribe,
\* Unsubscribe and Close, no send is attempted on a closed subscriber
\* channel and no subscriber channel is closed twice; a channel of the map
\* is open, and so is every channel Broadcast has yet to send on.
C21_NoSendOnClosedNoDoubleClose ==
    /\ cdSentClosed = {}
    /\ \A ch \in Chans : cdCloses[ch] <= 1
    /\ mapChans \cap dsClosed = {}
    /\ cdTodo \cap dsClosed = {}

\* C21 witness: a Broadcast has made a send and has more to make while
\* another caller waits for d.mu to close a channel, after an earlier
\* close.
C21_Witness ==
    \E c, o \in Callers :
        /\ cdPc[c].op = "Broadcast" /\ cdPc[c].at = "locked"
        /\ cdTodo # {} /\ cdTodo # mapChans
        /\ cdPc[o].op \in {"Unsubscribe", "Close"} /\ cdPc[o].at = "lock"
        /\ dsClosed # {}

(***************************************************************************)
(* C22: the monitor and a closed subscriber channel.                       *)
(***************************************************************************)

\* C22: a monitor never calls processBlock with a nil header: the zero
\* value read from a channel closed by Unsubscribe or Close is not taken
\* for a delivered header.
C22_NoNilHeaderProcessed ==
    \A m \in Ids : mPc[m] = "processing" => mHead[m] # NilHeader

(***************************************************************************)
(* C23: the event monitor after a block it missed.                         *)
(***************************************************************************)

\* C23: when the monitor has missed a block with tracked logs (its header
\* was dropped, or ProcessBlock failed) and processes a later block whose
\* logs and head are served correctly, the block is accepted.
C23_LaterBlockAccepted ==
    (emLast.served /\ \E b \in emMissed : b < emLast.block) => emLast.result = "ok"

(***************************************************************************)
(* C24: cancellation after the merge.                                      *)
(***************************************************************************)

\* C24: when the context is cancelled after ProcessBlock has merged into
\* the persistent state, the call does not commit: it does not get past
\* Commit, and it returns an error with the nonce, balance, code and
\* storage of every account as they were when the call started.
C24_CancelAfterMergeRollsBack ==
    sCancelAt = "verify" =>
        /\ sPc # "rebind"
        /\ sPc = "returned" =>
            /\ sResult = "err"
            /\ \A a \in SAddrs :
                /\ sDb.acc[a].nonce = sPre.acc[a].nonce
                /\ sDb.acc[a].balance = sPre.acc[a].balance
                /\ sDb.acc[a].code = sPre.acc[a].code
                /\ sDb.storage[a] = sPre.storage[a]

(***************************************************************************)
(* C25: what an admitted transaction adds to the tracked set.              *)
(***************************************************************************)

\* C25 as stated: when the scan has admitted a transaction, the tracked
\* set the earlier transactions are examined with holds its sender, its
\* recipient and every address of its access list.
C25_AdmittedAddsAll ==
    (fResult.done /\ ~fResult.err) =>
        \A i \in Admitted :
            ({fTxs[i].Sender} \cup ({fTxs[i].To} \ {NoAddr}) \cup fTxs[i].Trace)
                \subseteq trackedAt(fTxs, fCoinbase, i - 1)

\* C25, amended: when the scan has admitted a transaction, the tracked set
\* the earlier transactions are examined with is the one it was examined
\* with, plus its sender, its recipient and every address of its access
\* list other than the coinbase of the block; a transaction that is not
\* admitted leaves the set as it is.
C25_AdmittedAddsAllButCoinbase ==
    (fResult.done /\ ~fResult.err) =>
        \A i \in DOMAIN fTxs :
            trackedAt(fTxs, fCoinbase, i - 1) =
                IF i \in Admitted
                THEN trackedAt(fTxs, fCoinbase, i) \cup {fTxs[i].Sender}
                        \cup ({fTxs[i].To} \ {NoAddr})
                        \cup (fTxs[i].Trace \ {fCoinbase})
                ELSE trackedAt(fTxs, fCoinbase, i)

\* C25 witness: the last transaction was admitted with the coinbase in its
\* access list, the coinbase was not added, and the transaction before it
\* was admitted for an account the last one added.
C25_Witness ==
    /\ fResult.done
    /\ ~fResult.err
    /\ Len(fTxs) = 2
    /\ Admitted = {1, 2}
    /\ fCoinbase \in fTxs[2].Trace
    /\ fCoinbase \notin trackedAt(fTxs, fCoinbase, 1)
    /\ fTxs[1].To # NoAddr
    /\ ~Touches(fTxs[1], MonitoredAccs)
    /\ Touches(fTxs[1], trackedAt(fTxs, fCoinbase, 1))

(***************************************************************************)
(* C26: uninitialized = read before the first write.                       *)
(***************************************************************************)

\* Call i of the log is of the kind, on the address and the slot.
IsCall(i, kind, addr, slot) ==
    trLog[i].kind = kind /\ trLog[i].addr = addr /\ trLog[i].slot = slot

\* Some read of the kind came before the first write of the other kind.
ReadBeforeFirstWrite(read, write, addr, slot) ==
    \E i \in DOMAIN trLog :
        /\ IsCall(i, read, addr, slot)
        /\ \A j \in 1 .. (i - 1) : ~IsCall(j, write, addr, slot)

\* C26: an address is among the uninitialized account reads exactly when
\* some read of it came before the first write to it, and an address/slot
\* pair is among the uninitialized storage reads exactly when some read of
\* the pair came before the first write to the pair; the written sets hold
\* what was written.
C26_UninitializedIsReadBeforeFirstWrite ==
    /\ \A a \in SAddrs :
        /\ a \in trTracer.uninitializedAccReads
                <=> ReadBeforeFirstWrite("readAccount", "writeAccount", a, "")
        /\ a \in trTracer.accWrites
                <=> \E i \in DOMAIN trLog : IsCall(i, "writeAccount", a, "")
    /\ \A a \in SAddrs, k \in Slots :
        /\ k \in trTracer.uninitializedStorageReads[a]
                <=> ReadBeforeFirstWrite("readStorage", "writeStorage", a, k)
        /\ k \in trTracer.storageWrites[a]
                <=> \E i \in DOMAIN trLog : IsCall(i, "writeStorage", a, k)

\* C26 witness: one account was read, written and read again and is
\* recorded; another was written and then read and is not.
C26_Witness ==
    \E a, b \in SAddrs :
        /\ a # b
        /\ Len(trLog) = 4
        /\ IsCall(1, "readAccount", a, "")
        /\ IsCall(2, "writeAccount", a, "")
        /\ IsCall(3, "writeAccount", b, "")
        /\ IsCall(4, "readAccount", b, "")
        /\ trTracer.uninitializedAccReads = {a}

(***************************************************************************)
(* C27: every write is recorded as written.                                *)
(***************************************************************************)

\* C27: after a write through the TracingStateDB (CreateAccount, SetNonce,
\* SetBalance, SetCode, SetState) the address is among the written
\* accounts, or for SetState the slot among its written slots.
C27_WritesAreRecorded ==
    tsPhase = "exec" =>
        /\ tsOp.op \in {"CreateAccount", "SetAccount"} => tsOp.addr \in tsWorld.tracer.accWrites
        /\ tsOp.op = "SetState" => tsOp.slot \in tsWorld.tracer.storageWrites[tsOp.addr]

(***************************************************************************)
(* C28: the trace across Commit and New.                                   *)
(***************************************************************************)

\* C28: Commit leaves the trace (written sets and uninitialized reads) as
\* it is, the state New makes from a state carries the trace of that
\* state, and no call but NewWithEmptyTraces takes an entry out of the
\* trace, which it leaves empty.
C28_TracePreserved ==
    /\ [][tsOp'.op \in {"Commit", "New"} => tsWorld'.tracer = tsWorld.tracer]_vars
    /\ [][tsOp'.op = "NewWithEmptyTraces" => tsWorld'.tracer = newTracer]_vars
    /\ [][(tsPhase = "exec" /\ tsOp'.op # "NewWithEmptyTraces") =>
            /\ tsWorld.tracer.accWrites \subseteq tsWorld'.tracer.accWrites
            /\ tsWorld.tracer.uninitializedAccReads
                    \subseteq tsWorld'.tracer.uninitializedAccReads
            /\ \A a \in SAddrs :
                /\ tsWorld.tracer.storageWrites[a] \subseteq tsWorld'.tracer.storageWrites[a]
                /\ tsWorld.tracer.uninitializedStorageReads[a]
                        \subseteq tsWorld'.tracer.uninitializedStorageReads[a]]_vars

\* C28 witness: New has made a state from one with written accounts,
\* written slots and uninitialized reads in its trace.
C28_Witness ==
    /\ tsPhase = "exec"
    /\ tsOp.op = "New"
    /\ tsWorld.tracer.accWrites # {}
    /\ tsWorld.tracer.uninitializedAccReads # {}
    /\ \E a \in SAddrs : tsWorld.tracer.storageWrites[a] # {}
    /\ \E a \in SAddrs : tsWorld.tracer.uninitializedStorageReads[a] # {}

(***************************************************************************)
(* C29: VerifyCompleteness for an account the chain holds.                 *)
(***************************************************************************)

\* C29: for a monitored account the chain holds at the header,
\* VerifyCompleteness returns nil only if no provider call failed, the
\* account exists in the persistent world and its nonce, balance, code
\* and storage are those of the chain; with a failed provider call or a
\* difference in any one of them it returns an error.
C29_CompleteOnlyIfEqual ==
    (vcResult # "none" /\ vcExpected.exists) =>
        (vcResult = "ok" <=>
            /\ ~vcErrs.account
            /\ ~vcErrs.counter
            /\ vcDb.acc["A"].exists
            /\ vcDb.acc["A"].nonce = vcExpected.nonce
            /\ vcDb.acc["A"].balance = vcExpected.balance
            /\ vcDb.acc["A"].code = vcExpected.code
            /\ vcDb.storage["A"] = vcExpected.storage)

\* C29 witness: the call failed for a world that differs from the chain in
\* the balance alone, with no provider failure.
C29_Witness ==
    /\ vcResult = "err"
    /\ vcExpected.exists
    /\ vcErrs = NoErrs
    /\ vcDb.acc["A"].exists
    /\ vcDb.acc["A"].nonce = vcExpected.nonce
    /\ vcDb.acc["A"].balance # vcExpected.balance
    /\ vcDb.acc["A"].code = vcExpected.code
    /\ vcDb.storage["A"] = vcExpected.storage

(***************************************************************************)
(* C30: an uninitialized read of an account the chain held.                *)
(***************************************************************************)

\* C30: when an address among the uninitialized account reads existed on
\* the chain at the previous block, VerifyUninitializedReads fails and
\* ProcessBlock returns with the persistent state untouched; the call
\* passes only when for every such address the provider, without a
\* failure, has shown the account absent; and the persistent state changes
\* only after the call has passed.
C30_ExistingUninitializedReadRejects ==
    /\ (urCall.made /\ urCall.reads \cap urCall.chain.exists # {}) =>
            /\ urCall.result = "err"
            /\ urPc = "returned"
    /\ (urCall.made /\ urCall.result = "ok") =>
            \A a \in urCall.reads :
                a \notin urCall.chain.exists /\ a \notin urCall.errs.accounts
    /\ urPc \in {"uninit", "returned"} =>
            (urDb.acc = urPre.acc /\ urDb.storage = urPre.storage /\ urDb.journal = <<>>)
    /\ urPc \in {"merge", "verify"} => (urCall.made /\ urCall.result = "ok")

\* C30 witness: of two uninitialized account reads one was of an account
\* the chain held; no provider call failed and ProcessBlock has returned.
C30_Witness ==
    /\ urPc = "returned"
    /\ urCall.made
    /\ urCall.reads = SAddrs
    /\ Cardinality(urCall.chain.exists) = 1
    /\ urCall.errs = NoUninitCall.errs
    /\ urCall.slotReads = {}
    /\ urCall.result = "err"
    /\ \E a \in SAddrs : urPre.acc[a].exists

(***************************************************************************)
(* C31: an uninitialized read of a storage slot.                           *)
(***************************************************************************)

\* C31: when the provider answers for the account, verifyStorageRead
\* admits a StorageRead of an account that did not exist at the previous
\* block; for an account that existed it admits the read only if every
\* slot of the tuple was fetched and is zero at that block, and a slot with
\* a non-zero value makes it fail.
C31_StorageReadAdmittedIffAbsentOrZero ==
    (srResult # "none" /\ srTuple.Address \notin srErrs.accounts) =>
        /\ srTuple.Address \notin srChain.exists => srResult = "ok"
        /\ (srTuple.Address \in srChain.exists /\ srResult = "ok") =>
                \A k \in srTuple.Slots :
                    /\ <<srTuple.Address, k>> \notin srChain.nonDefault
                    /\ <<srTuple.Address, k>> \notin srErrs.slots
        /\ (/\ srTuple.Address \in srChain.exists
            /\ \E k \in srTuple.Slots : <<srTuple.Address, k>> \in srChain.nonDefault)
                => srResult = "err"
        /\ (/\ srTuple.Address \in srChain.exists
            /\ srErrs.slots = {}
            /\ \A k \in srTuple.Slots : <<srTuple.Address, k>> \notin srChain.nonDefault)
                => srResult = "ok"

\* C31 witness: of two slots read of an existing account one is not zero on
\* the chain, no provider call fails, and the read is rejected.
C31_Witness ==
    /\ srResult = "err"
    /\ srTuple.Slots = ReadSlots
    /\ srTuple.Address \in srChain.exists
    /\ Cardinality(srChain.nonDefault) = 1
    /\ srErrs.accounts = {}
    /\ srErrs.slots = {}

(***************************************************************************)
(* C32: the head of the log verifier after a failed ProcessBlock.          *)
(***************************************************************************)

\* C32: when LogProcessor.ProcessBlock has returned an error, the head of
\* the verifier is the head it had before the call.
C32_ErrorKeepsHead ==
    emLast.result = "err" => emVHead = emLast.headBefore

(***************************************************************************)
(* C33: the persistent world after a failed commit or rebind.              *)
(***************************************************************************)

\* C33: TxProcessor.world is never nil, whatever step of ProcessBlock
\* returned an error, and ProcessBlock for a later header never
\* dereferences a nil world.
C33_WorldNeverNil ==
    /\ ~sWorldNil
    /\ sPc # "panicked"

(***************************************************************************)
(* C34: the listener and the closed stream of the sync client.             *)
(***************************************************************************)

\* C34: the listener never takes a nil header from the stream the sync
\* client has closed: it does not get to call head.Hash() and Broadcast
\* with it.
C34_ListenerNeverTakesNil ==
    lPc # "panicked"

(***************************************************************************)
(* C35: the guard of the subscriber map during a Broadcast.                *)
(***************************************************************************)

\* C35: while d.mu is held, its holder is a Broadcast in its loop that can
\* take its next step whatever the buffers hold, so it never waits on a
\* send with the guard held; and the guard, once held, is released again,
\* whether or not any monitor ever receives, so Subscribe, Unsubscribe and
\* Close get their turn.
C35_GuardNotHeldWhileBlocked ==
    /\ [](mu => (bPc = "loop" /\ ENABLED <<BroadcastSteps>>_vars))
    /\ mu ~> ~mu

\* C35 witness: a Broadcast holds the guard and has yet to visit a
\* subscriber whose buffer is full and who has received nothing.
C35_Witness ==
    /\ mu
    /\ bPc = "loop"
    /\ \E id \in bTodo : chanFull(chans[id]) /\ mRecv[id] = <<>>

(***************************************************************************)
(* C36: the merge leaves accounts that are not monitored alone.            *)
(***************************************************************************)

\* C36: at every point of ProcessBlock, and after it, the nonce, balance,
\* code, existence and storage of every account that is not monitored are
\* in the persistent world what they were when the call started; no step
\* changes them.
C36_UnmonitoredUnchanged ==
    /\ [](\A a \in SAddrs \ MonitoredAccs :
            /\ sDb.acc[a] = sPre.acc[a]
            /\ sDb.storage[a] = sPre.storage[a])
    /\ [][\A a \in SAddrs \ MonitoredAccs :
            /\ sDb'.acc[a] = sDb.acc[a]
            /\ sDb'.storage[a] = sDb.storage[a]]_vars

\* C36 witness: the merge took a transient state in which a monitored and an
\* unmonitored account were written, and the monitored one has changed.
C36_Witness ==
    /\ sPc = "verify"
    /\ sChecks.merged = SAddrs
    /\ \E a \in MonitoredAccs : sDb.acc[a] # sPre.acc[a]

(***************************************************************************)
(* C37: Revert after Commit.                                               *)
(***************************************************************************)

\* C37: Commit leaves the journal empty, and a Revert on an empty journal
\* changes neither the state nor the journal: after a Commit the values
\* written before it stay in place however many times Revert is called.
C37_RevertAfterCommitChangesNothing ==
    /\ [](rvLast = "commit" => rvDb.journal = <<>>)
    /\ []((rvLast = "revert" /\ rvDb.journal = <<>>) => StateOf(rvDb) = rvBase)
    /\ [][(rvDb.journal = <<>> /\ rvLast' = "revert") => rvDb' = rvDb]_vars

\* C37 witness: values were written and committed, and a Revert came after
\* the Commit.
C37_Witness ==
    /\ rvLast = "revert"
    /\ rvDb.journal = <<>>
    /\ \E a \in RvAddrs : rvDb.acc[a].nonce # 0 /\ rvDb.storage[a] # EmptyDb.storage[a]

(***************************************************************************)
(* C38: GetByNumber and Put on the same HeaderStore.                       *)
(***************************************************************************)

\* C38: GetByNumber and Put never wait for each other: there is no state in
\* which GetByNumber, holding its read lock, waits in GetByHash for the
\* second read lock behind a Put that waits for the read lock to be
\* released.
C38_NoLockDeadlock ==
    ~(/\ rPc = "rlock"
      /\ rNested
      /\ hsMu.readers > 0
      /\ wPc = "lock"
      /\ hsMu.writer = "waiting")

====
